---- MODULE Spec2Model ----
(***************************************************************************)
(* A model of the core of rag-whatsapp: the temporal chunker, the hybrid   *)
(* retriever, the ReAct agent loop, the ingestion pipeline and the export  *)
(* parser.                                                                 *)
(*                                                                         *)
(* Each component has its own specification (SpecChunker, SpecRetriever,   *)
(* SpecAgent, SpecPipeline); the variables of the other components stay at *)
(* their initial values.                                                   *)
(***************************************************************************)
EXTENDS Integers, Sequences, FiniteSets, TLC

VARIABLES
  \* ---- chunker (chunkMessages) ----
  cpc,            \* position in chunkMessages: "start", "partitioned", "done"
  messages,       \* the input message list
  opts,           \* the merged options (DEFAULT_OPTIONS overridden by the caller)
  sortedMessages, \* the sorted copy of the input
  chunks,         \* the chunks of the greedy partition
  mergedChunks,   \* the chunks returned (after mergeSmallChunks)
  \* ---- ReAct agent (one shared ReActAgent instance, one entry per run() call) ----
  runnable,       \* the run() calls that are made
  apc,            \* position of each run(): "idle", "awaitGen", "awaitTool",
                  \*   "awaitSynthGen", "awaitSynth", "done", "failed"
  steps,          \* this.steps of the agent instance
  currentQuestion,\* this.currentQuestion of the agent instance
  iterations,     \* the local iterations of each run()
  finalAnswer,    \* the local finalAnswer of each run()
  prompt,         \* what each run() has appended to its prompt
  pendingCall,    \* the parsed completion whose tool call is in flight
  genCalls,       \* number of llm.generate calls issued inside the loop
  synthCalls,     \* number of llm.generate calls issued by synthesizeAnswer
  toolCalls,      \* number of tool.execute calls issued
  loopEnded,      \* whether the while loop of the run() has ended
  response,       \* what each run() returned
  \* ---- retriever (one Retriever.retrieve call) ----
  rpc,            \* position in retrieve: "start", "searched", "done"
  corpus,         \* the chunks held by the vector store, by chunk id
  keywords,       \* extractKeywords(query)
  retrieveOptions,\* topK, minScore and filters of the call
  results,        \* what vectorStore.search returned
  keywordChunks,  \* what keywordSearch returned
  scrollCalls,    \* number of vectorStore.scrollAll calls issued
  resultMap,      \* the entries of resultMap, in insertion order
  retrieved,      \* the RetrievalResult returned
  \* ---- ingestion pipeline (one IngestionPipeline instance, one entry per ingest call) ----
  progress,       \* this.progress: the progress records, by job id
  jobInput,       \* per ingest call: what the file parses and chunks to, and the options
  jpc,            \* position of each ingest call
  batchStart,     \* the local i of the batch loop
  batchPos,       \* the local j of the loop over one batch
  embeddings,     \* the embeddings returned for the batch in work
  storedChunks,   \* the local storedChunks
  upserted,       \* what the vector store received from upsertBatch
  raised,         \* the value that a stage raised
  thrown,         \* the value that ingest threw to its caller
  stageCalls,     \* number of parse, embedBatch and upsertBatch calls issued
  clock,          \* the time, read by new Date()
  \* ---- parser (one parseWhatsAppExport call) ----
  ppc,            \* position in parseWhatsAppExport: "lines", "done"
  fileLines,      \* content.split(/\r?\n/): the lines of the file
  parserOptions,  \* includeSystemMessages and includeDeletedMessages
  lineNo,         \* the index of the line that the for loop reads next
  currentMessage, \* the local currentMessage: the open accumulator, or null
  parserMessages, \* the local messages: the output list
  participantsSet,\* the local participantsSet
  parserResult    \* the ParserResult returned, NoResult before the return

chunkVars == <<cpc, messages, opts, sortedMessages, chunks, mergedChunks>>

agentVars == <<runnable, apc, steps, currentQuestion, iterations, finalAnswer, prompt,
               pendingCall, genCalls, synthCalls, toolCalls, loopEnded, response>>

retrVars == <<rpc, corpus, keywords, retrieveOptions, results, keywordChunks, scrollCalls,
              resultMap, retrieved>>

pipeVars == <<progress, jobInput, jpc, batchStart, batchPos, embeddings, storedChunks,
              upserted, raised, thrown, stageCalls, clock>>

parseVars ==
  <<ppc, fileLines, parserOptions, lineNo, currentMessage, parserMessages,
    participantsSet, parserResult>>

vars == <<chunkVars, agentVars, retrVars, pipeVars, parseVars>>

(***************************************************************************)
(* Bounds of the model                                                     *)
(***************************************************************************)
MaxMsgs == 4
\* the longest list of hits that the vector store returns
MaxHits == 2
\* the longest file, in lines
MaxLines == 4
\* the longest file of the classification runs, in lines
MaxTypedLines == 2
\* the longest file of the date runs, in lines
MaxDatedLines == 2

\* message timestamps, in minutes
Timestamps == {0, 1, 2}
GapChoices == {1, 2}
MaxMessagesChoices == {2, 3}
MinMessagesChoices == {1, 2, 3}
MaxCharsChoices == {100, 400}
\* sender length and content length of a message
MsgShapes == {[slen |-> 4, clen |-> 1], [slen |-> 4, clen |-> 31]}

(***************************************************************************)
(* Generic helpers on sequences                                            *)
(***************************************************************************)
RECURSIVE SumSeq(_)
SumSeq(s) == IF s = <<>> THEN 0 ELSE Head(s) + SumSeq(Tail(s))

RECURSIVE Flatten(_)
Flatten(ss) == IF ss = <<>> THEN <<>> ELSE Head(ss) \o Flatten(Tail(ss))

Last(s) == s[Len(s)]
Front(s) == SubSeq(s, 1, Len(s) - 1)

(***************************************************************************)
(* Chunker                                                                 *)
(***************************************************************************)
\* a message: its identity, its timestamp (in minutes), and the lengths of
\* its sender and content
NoMsg == [id |-> 0, ts |-> 0, slen |-> 0, clen |-> 0]

\* the fixed formatting overhead of one rendered message
overhead == 25

getMessageCharCount(message) == overhead + message.slen + message.clen

getMessagesCharCount(msgs) ==
  SumSeq([i \in 1..Len(msgs) |-> getMessageCharCount(msgs[i])])

\* [...messages].sort((a, b) => a.timestamp - b.timestamp): a stable sort
RECURSIVE InsertByTs(_, _)
InsertByTs(m, s) ==
  IF s = <<>> THEN <<m>>
  ELSE IF Last(s).ts <= m.ts THEN Append(s, m)
  ELSE Append(InsertByTs(m, Front(s)), Last(s))

RECURSIVE SortByTimestamp(_)
SortByTimestamp(s) ==
  IF s = <<>> THEN <<>>
  ELSE InsertByTs(Last(s), SortByTimestamp(Front(s)))

\* mutant: the gap test with > in place of >=
shouldStartNewChunk_StrictGap(current, previous, currentChunkSize, currentChunkChars, newMessageChars, options) ==
  IF currentChunkChars + newMessageChars > options.maxChunkChars THEN TRUE
  ELSE IF currentChunkSize >= options.maxMessages THEN TRUE
  ELSE IF previous.id = NoMsg.id THEN FALSE
  ELSE (current.ts - previous.ts) > options.gapMinutes

\* mutant: the size test off by one
shouldStartNewChunk_EarlyMax(current, previous, currentChunkSize, currentChunkChars, newMessageChars, options) ==
  IF currentChunkChars + newMessageChars > options.maxChunkChars THEN TRUE
  ELSE IF currentChunkSize + 1 >= options.maxMessages THEN TRUE
  ELSE IF previous.id = NoMsg.id THEN FALSE
  ELSE (current.ts - previous.ts) >= options.gapMinutes

shouldStartNewChunk(current, previous, currentChunkSize, currentChunkChars, newMessageChars, options) ==
  IF currentChunkChars + newMessageChars > options.maxChunkChars THEN TRUE
  ELSE IF currentChunkSize >= options.maxMessages THEN TRUE
  ELSE IF previous.id = NoMsg.id THEN FALSE
  ELSE (current.ts - previous.ts) >= options.gapMinutes

\* mutant: endTime taken from the first message
createChunk_EndFirst(msgs) ==
  [messages |-> msgs,
   startTime |-> msgs[1].ts,
   endTime |-> msgs[1].ts,
   messageCount |-> Len(msgs)]

createChunk(msgs) ==
  [messages |-> msgs,
   startTime |-> msgs[1].ts,
   endTime |-> msgs[Len(msgs)].ts,
   messageCount |-> Len(msgs)]

\* the for loop of chunkMessages, from index i on, followed by the final push
RECURSIVE GreedyLoop(_, _, _, _, _, _)
GreedyLoop(sorted, i, out, currentChunk, currentChunkChars, options) ==
  IF i > Len(sorted)
  THEN IF Len(currentChunk) > 0 THEN Append(out, createChunk(currentChunk)) ELSE out
  ELSE
    LET message == sorted[i]
        prevMessage == IF Len(currentChunk) > 0 THEN Last(currentChunk) ELSE NoMsg
        messageChars == getMessageCharCount(message)
        shouldSplit == shouldStartNewChunk(message, prevMessage, Len(currentChunk),
                                           currentChunkChars, messageChars, options)
    IN IF shouldSplit /\ Len(currentChunk) > 0
       THEN GreedyLoop(sorted, i + 1, Append(out, createChunk(currentChunk)),
                       <<message>>, messageChars, options)
       ELSE GreedyLoop(sorted, i + 1, out,
                       Append(currentChunk, message),
                       currentChunkChars + messageChars, options)

\* mutant: the pending messages are joined to a full-sized chunk whatever
\* the cost
MergeStep_NoBudget(st, chunk, minMessages, maxChunkChars) ==
  LET chunkChars == getMessagesCharCount(chunk.messages)
      empty == [result |-> st.result, pendingMessages |-> <<>>, pendingChars |-> 0]
  IN
  IF Len(chunk.messages) >= minMessages
  THEN IF Len(st.pendingMessages) > 0
       THEN [empty EXCEPT !.result =
               Append(st.result, createChunk(st.pendingMessages \o chunk.messages))]
       ELSE [st EXCEPT !.result = Append(st.result, chunk)]
  ELSE
    LET flushed == IF st.pendingChars + chunkChars > maxChunkChars
                      /\ Len(st.pendingMessages) > 0
                   THEN [empty EXCEPT !.result =
                           Append(st.result, createChunk(st.pendingMessages))]
                   ELSE st
        added == [flushed EXCEPT !.pendingMessages = @ \o chunk.messages,
                                 !.pendingChars = @ + chunkChars]
    IN IF Len(added.pendingMessages) >= minMessages
       THEN [result |-> Append(added.result, createChunk(added.pendingMessages)),
             pendingMessages |-> <<>>, pendingChars |-> 0]
       ELSE added

\* the state of the for loop of mergeSmallChunks after chunk i
MergeStep(st, chunk, minMessages, maxChunkChars) ==
  LET chunkChars == getMessagesCharCount(chunk.messages)
      empty == [result |-> st.result, pendingMessages |-> <<>>, pendingChars |-> 0]
  IN
  IF Len(chunk.messages) >= minMessages
  THEN IF Len(st.pendingMessages) > 0
       THEN IF Len(st.pendingMessages) < minMessages
               /\ st.pendingChars + chunkChars <= maxChunkChars
            THEN [empty EXCEPT !.result =
                    Append(st.result, createChunk(st.pendingMessages \o chunk.messages))]
            ELSE [empty EXCEPT !.result =
                    Append(Append(st.result, createChunk(st.pendingMessages)), chunk)]
       ELSE [st EXCEPT !.result = Append(st.result, chunk)]
  ELSE
    LET flushed == IF st.pendingChars + chunkChars > maxChunkChars
                      /\ Len(st.pendingMessages) > 0
                   THEN [empty EXCEPT !.result =
                           Append(st.result, createChunk(st.pendingMessages))]
                   ELSE st
        added == [flushed EXCEPT !.pendingMessages = @ \o chunk.messages,
                                 !.pendingChars = @ + chunkChars]
    IN IF Len(added.pendingMessages) >= minMessages
       THEN [result |-> Append(added.result, createChunk(added.pendingMessages)),
             pendingMessages |-> <<>>, pendingChars |-> 0]
       ELSE added

RECURSIVE MergeLoop(_, _, _, _, _)
MergeLoop(cs, i, st, minMessages, maxChunkChars) ==
  IF i > Len(cs) THEN st
  ELSE MergeLoop(cs, i + 1, MergeStep(st, cs[i], minMessages, maxChunkChars),
                 minMessages, maxChunkChars)

\* mutant: the last chunk is read but not popped before the merged chunk is pushed
MergeRemainder_NoPop(st, maxChunkChars) ==
  IF Len(st.pendingMessages) > 0
  THEN IF Len(st.result) > 0
       THEN LET lastChunk == Last(st.result)
                lastChunkChars == getMessagesCharCount(lastChunk.messages)
            IN IF lastChunkChars + st.pendingChars <= maxChunkChars
               THEN Append(st.result, createChunk(lastChunk.messages \o st.pendingMessages))
               ELSE Append(st.result, createChunk(st.pendingMessages))
       ELSE Append(st.result, createChunk(st.pendingMessages))
  ELSE st.result

\* mutant: the remainder is merged into the last chunk whatever the cost
MergeRemainder_NoBudget(st, maxChunkChars) ==
  IF Len(st.pendingMessages) > 0
  THEN IF Len(st.result) > 0
       THEN LET lastChunk == Last(st.result)
                popped == Front(st.result)
            IN Append(popped, createChunk(lastChunk.messages \o st.pendingMessages))
       ELSE Append(st.result, createChunk(st.pendingMessages))
  ELSE st.result

\* the handling of the pending remainder after the loop
MergeRemainder(st, maxChunkChars) ==
  IF Len(st.pendingMessages) > 0
  THEN IF Len(st.result) > 0
       THEN LET lastChunk == Last(st.result)
                popped == Front(st.result)
                lastChunkChars == getMessagesCharCount(lastChunk.messages)
            IN IF lastChunkChars + st.pendingChars <= maxChunkChars
               THEN Append(popped, createChunk(lastChunk.messages \o st.pendingMessages))
               ELSE Append(Append(popped, lastChunk), createChunk(st.pendingMessages))
       ELSE Append(st.result, createChunk(st.pendingMessages))
  ELSE st.result

\* mutant: the pending remainder is pushed as a chunk of its own
mergeSmallChunks_RemainderAlone(cs, minMessages, maxChunkChars) ==
  IF Len(cs) <= 1 THEN cs
  ELSE LET st == MergeLoop(cs, 1,
                           [result |-> <<>>, pendingMessages |-> <<>>, pendingChars |-> 0],
                           minMessages, maxChunkChars)
       IN IF Len(st.pendingMessages) > 0
          THEN Append(st.result, createChunk(st.pendingMessages))
          ELSE st.result

mergeSmallChunks(cs, minMessages, maxChunkChars) ==
  IF Len(cs) <= 1 THEN cs
  ELSE MergeRemainder(
         MergeLoop(cs, 1, [result |-> <<>>, pendingMessages |-> <<>>, pendingChars |-> 0],
                   minMessages, maxChunkChars),
         maxChunkChars)

\* ---- the input domain ----
MessageValues(i) ==
  {[id |-> i, ts |-> t, slen |-> sh.slen, clen |-> sh.clen] :
     t \in Timestamps, sh \in MsgShapes}

\* the lists of n messages, message i carrying identity i
RECURSIVE MessageLists(_)
MessageLists(n) ==
  IF n = 0 THEN {<<>>}
  ELSE {Append(s, m) : s \in MessageLists(n - 1), m \in MessageValues(n)}

OptionSets ==
  [gapMinutes : GapChoices, maxMessages : MaxMessagesChoices,
   minMessages : MinMessagesChoices, maxChunkChars : MaxCharsChoices]

\* options with a character budget that one long message exceeds
TightOptionSets ==
  [gapMinutes : {2}, maxMessages : MaxMessagesChoices,
   minMessages : MinMessagesChoices, maxChunkChars : {50, 100}]

ChunkerIdle ==
  /\ cpc = "start"
  /\ sortedMessages = <<>>
  /\ chunks = <<>>
  /\ mergedChunks = <<>>

ChunkerInputs ==
  /\ \E n \in 0..MaxMsgs : messages \in MessageLists(n)
  /\ opts \in OptionSets
  /\ ChunkerIdle

ChunkerTightInputs ==
  /\ \E n \in 0..MaxMsgs : messages \in MessageLists(n)
  /\ opts \in TightOptionSets
  /\ ChunkerIdle

\* no call of chunkMessages is made
ChunkerUnused ==
  /\ messages = <<>>
  /\ opts = [gapMinutes |-> 30, maxMessages |-> 50, minMessages |-> 3, maxChunkChars |-> 4000]
  /\ ChunkerIdle
  /\ cpc = "start"

\* chunkMessages on an empty list: the early return
ChunkEmpty ==
  /\ cpc = "start"
  /\ Len(messages) = 0
  /\ cpc' = "done"
  /\ UNCHANGED <<messages, opts, sortedMessages, chunks, mergedChunks>>
  /\ UNCHANGED <<agentVars, retrVars, pipeVars, parseVars>>

\* the sort and the greedy partition
ChunkPartition ==
  /\ cpc = "start"
  /\ Len(messages) > 0
  /\ sortedMessages' = SortByTimestamp(messages)
  /\ chunks' = GreedyLoop(sortedMessages', 1, <<>>, <<>>, 0, opts)
  /\ cpc' = "partitioned"
  /\ UNCHANGED <<messages, opts, mergedChunks>>
  /\ UNCHANGED <<agentVars, retrVars, pipeVars, parseVars>>

\* the merge pass and the return
ChunkMerge ==
  /\ cpc = "partitioned"
  /\ mergedChunks' = mergeSmallChunks(chunks, opts.minMessages, opts.maxChunkChars)
  /\ cpc' = "done"
  /\ UNCHANGED <<messages, opts, sortedMessages, chunks>>
  /\ UNCHANGED <<agentVars, retrVars, pipeVars, parseVars>>

NextChunker == ChunkEmpty \/ ChunkPartition \/ ChunkMerge

(***************************************************************************)
(* ReAct agent                                                             *)
(***************************************************************************)
MAX_ITERATIONS == 5

\* the run() calls on the agent instance returned by getReActAgent
Runs == {"r1", "r2"}

\* the names of the tools of AGENT_TOOLS
AGENT_TOOLS == {"search", "filter_by_date", "list_participants", "summarize"}

\* a completion of the model, by the sections that its text holds:
\*   final:  no `Final Answer:` section, one with no text after it, one with text
\*   action: no `Action: <name>` line, or the name it gives
\*   input:  no `Action Input:` line, one with a JSON object, one with braces
\*           that JSON.parse rejects, one without braces
Completions ==
  [final : {"none", "empty", "text"},
   action : {"none", "search", "get_participants"},
   input : {"none", "json", "badjson", "nobrace"}]

NoCall == [action |-> "none", actionInput |-> "none"]

parseResponse(c) ==
  IF c.final # "none"
  THEN [finalAnswer |-> c.final, action |-> "none", actionInput |-> "none"]
  ELSE [finalAnswer |-> "none",
        action |-> c.action,
        actionInput |-> CASE c.input = "json" -> "json"
                          [] c.input = "badjson" -> "query"
                          [] OTHER -> "none"]

getTool(name) == name \in AGENT_TOOLS

\* s.observation && !s.observation.startsWith('Error')
UsableObservation(s) == s.observation.kind = "result"

\* the observations that synthesizeAnswer and fallbackSummary keep
UsableObservations(st) ==
  LET kept == SelectSeq(st, UsableObservation)
  IN [i \in 1..Len(kept) |-> kept[i].observation]

formatReasoningSteps(st) == [i \in 1..Len(st) |-> [action |-> st[i].action, run |-> st[i].run]]

\* the value returned by run()
Returned(r, answer, st) ==
  [answer |-> answer, reasoning |-> formatReasoningSteps(st), chunksRetrieved |-> Len(st)]

NoResponse == [answer |-> [kind |-> "none"], reasoning |-> <<>>, chunksRetrieved |-> 0]

\* mutant: the fallback keeps the error observations
fallbackSummary_Unfiltered(st) ==
  IF Len(st) = 0 THEN [kind |-> "nothingFound"]
  ELSE [kind |-> "fallback", observations |-> [i \in 1..Len(st) |-> st[i].observation]]

fallbackSummary(st) ==
  IF Len(st) = 0 THEN [kind |-> "nothingFound"]
  ELSE IF UsableObservations(st) = <<>> THEN [kind |-> "searchedNothing"]
  ELSE [kind |-> "fallback", observations |-> UsableObservations(st)]

AgentIdle ==
  /\ runnable = {}
  /\ apc = [r \in Runs |-> "idle"]
  /\ steps = <<>>
  /\ currentQuestion = ""
  /\ iterations = [r \in Runs |-> 0]
  /\ finalAnswer = [r \in Runs |-> [kind |-> "none"]]
  /\ prompt = [r \in Runs |-> <<>>]
  /\ pendingCall = [r \in Runs |-> NoCall]
  /\ genCalls = [r \in Runs |-> 0]
  /\ synthCalls = [r \in Runs |-> 0]
  /\ toolCalls = [r \in Runs |-> 0]
  /\ loopEnded = [r \in Runs |-> FALSE]
  /\ response = [r \in Runs |-> NoResponse]

\* one run() call is made on the agent
AgentInputs ==
  /\ runnable = {"r1"}
  /\ apc = [r \in Runs |-> "idle"]
  /\ steps = <<>>
  /\ currentQuestion = ""
  /\ iterations = [r \in Runs |-> 0]
  /\ finalAnswer = [r \in Runs |-> [kind |-> "none"]]
  /\ prompt = [r \in Runs |-> <<>>]
  /\ pendingCall = [r \in Runs |-> NoCall]
  /\ genCalls = [r \in Runs |-> 0]
  /\ synthCalls = [r \in Runs |-> 0]
  /\ toolCalls = [r \in Runs |-> 0]
  /\ loopEnded = [r \in Runs |-> FALSE]
  /\ response = [r \in Runs |-> NoResponse]

\* two run() calls are made on the agent, as by two requests of the query
\* route that are served at the same time
AgentSharedInputs ==
  /\ runnable = Runs
  /\ apc = [r \in Runs |-> "idle"]
  /\ steps = <<>>
  /\ currentQuestion = ""
  /\ iterations = [r \in Runs |-> 0]
  /\ finalAnswer = [r \in Runs |-> [kind |-> "none"]]
  /\ prompt = [r \in Runs |-> <<>>]
  /\ pendingCall = [r \in Runs |-> NoCall]
  /\ genCalls = [r \in Runs |-> 0]
  /\ synthCalls = [r \in Runs |-> 0]
  /\ toolCalls = [r \in Runs |-> 0]
  /\ loopEnded = [r \in Runs |-> FALSE]
  /\ response = [r \in Runs |-> NoResponse]

\* run(question) up to its first await: the fields of the instance are reset
\* and the first generation call of the loop is issued
AgentRun(r) ==
  /\ r \in runnable
  /\ apc[r] = "idle"
  /\ steps' = <<>>
  /\ currentQuestion' = r
  /\ prompt' = [prompt EXCEPT ![r] = <<>>]
  /\ finalAnswer' = [finalAnswer EXCEPT ![r] = [kind |-> "none"]]
  /\ IF 0 < MAX_ITERATIONS
     THEN /\ iterations' = [iterations EXCEPT ![r] = 1]
          /\ genCalls' = [genCalls EXCEPT ![r] = @ + 1]
          /\ apc' = [apc EXCEPT ![r] = "awaitGen"]
          /\ UNCHANGED loopEnded
     ELSE /\ iterations' = [iterations EXCEPT ![r] = 0]
          /\ apc' = [apc EXCEPT ![r] = "awaitSynth"]
          /\ loopEnded' = [loopEnded EXCEPT ![r] = TRUE]
          /\ UNCHANGED genCalls
  /\ UNCHANGED <<runnable, pendingCall, synthCalls, toolCalls, response>>
  /\ UNCHANGED <<chunkVars, retrVars, pipeVars, parseVars>>

\* mutant: the loop test with <= in place of <
LoopContinue_OneMore(r, st, pr) ==
  /\ steps' = st
  /\ prompt' = [prompt EXCEPT ![r] = pr]
  /\ pendingCall' = [pendingCall EXCEPT ![r] = NoCall]
  /\ IF iterations[r] <= MAX_ITERATIONS
     THEN /\ iterations' = [iterations EXCEPT ![r] = @ + 1]
          /\ genCalls' = [genCalls EXCEPT ![r] = @ + 1]
          /\ apc' = [apc EXCEPT ![r] = "awaitGen"]
          /\ UNCHANGED <<finalAnswer, synthCalls, loopEnded>>
     ELSE /\ loopEnded' = [loopEnded EXCEPT ![r] = TRUE]
          /\ UNCHANGED <<iterations, genCalls>>
          /\ IF UsableObservations(st) = <<>>
             THEN /\ finalAnswer' = [finalAnswer EXCEPT ![r] = [kind |-> "noInformation"]]
                  /\ apc' = [apc EXCEPT ![r] = "awaitSynth"]
                  /\ UNCHANGED synthCalls
             ELSE /\ synthCalls' = [synthCalls EXCEPT ![r] = @ + 1]
                  /\ finalAnswer' = [finalAnswer EXCEPT ![r] =
                       [kind |-> "synthesis", question |-> currentQuestion,
                        observations |-> UsableObservations(st)]]
                  /\ apc' = [apc EXCEPT ![r] = "awaitSynthGen"]
  /\ UNCHANGED <<runnable, currentQuestion, toolCalls, response>>
  /\ UNCHANGED <<chunkVars, retrVars, pipeVars, parseVars>>

\* the end of one iteration without a final answer, with the steps st and the
\* prompt pr it leaves: the loop test, then either the next generation call or
\* the start of synthesizeAnswer (up to its await)
LoopContinue(r, st, pr) ==
  /\ steps' = st
  /\ prompt' = [prompt EXCEPT ![r] = pr]
  /\ pendingCall' = [pendingCall EXCEPT ![r] = NoCall]
  /\ IF iterations[r] < MAX_ITERATIONS
     THEN /\ iterations' = [iterations EXCEPT ![r] = @ + 1]
          /\ genCalls' = [genCalls EXCEPT ![r] = @ + 1]
          /\ apc' = [apc EXCEPT ![r] = "awaitGen"]
          /\ UNCHANGED <<finalAnswer, synthCalls, loopEnded>>
     ELSE /\ loopEnded' = [loopEnded EXCEPT ![r] = TRUE]
          /\ UNCHANGED <<iterations, genCalls>>
          /\ IF UsableObservations(st) = <<>>
             THEN /\ finalAnswer' = [finalAnswer EXCEPT ![r] = [kind |-> "noInformation"]]
                  /\ apc' = [apc EXCEPT ![r] = "awaitSynth"]
                  /\ UNCHANGED synthCalls
             ELSE /\ synthCalls' = [synthCalls EXCEPT ![r] = @ + 1]
                  /\ finalAnswer' = [finalAnswer EXCEPT ![r] =
                       [kind |-> "synthesis", question |-> currentQuestion,
                        observations |-> UsableObservations(st)]]
                  /\ apc' = [apc EXCEPT ![r] = "awaitSynthGen"]
  /\ UNCHANGED <<runnable, currentQuestion, toolCalls, response>>
  /\ UNCHANGED <<chunkVars, retrVars, pipeVars, parseVars>>

\* the completion holds a final answer with text: break and return
AgentFinalAnswer(r, c) ==
  /\ apc[r] = "awaitGen"
  /\ parseResponse(c).finalAnswer = "text"
  /\ finalAnswer' = [finalAnswer EXCEPT ![r] = [kind |-> "final", iteration |-> iterations[r]]]
  /\ loopEnded' = [loopEnded EXCEPT ![r] = TRUE]
  /\ response' = [response EXCEPT ![r] = Returned(r, finalAnswer'[r], steps)]
  /\ apc' = [apc EXCEPT ![r] = "done"]
  /\ UNCHANGED <<runnable, steps, currentQuestion, iterations, prompt, pendingCall,
                 genCalls, synthCalls, toolCalls>>
  /\ UNCHANGED <<chunkVars, retrVars, pipeVars, parseVars>>

\* the completion names a registered tool and has an input: execute is called
AgentDispatchTool(r, c) ==
  /\ apc[r] = "awaitGen"
  /\ parseResponse(c).finalAnswer # "text"
  /\ parseResponse(c).action # "none"
  /\ parseResponse(c).actionInput # "none"
  /\ getTool(parseResponse(c).action)
  /\ pendingCall' = [pendingCall EXCEPT ![r] =
       [action |-> parseResponse(c).action, actionInput |-> parseResponse(c).actionInput]]
  /\ toolCalls' = [toolCalls EXCEPT ![r] = @ + 1]
  /\ apc' = [apc EXCEPT ![r] = "awaitTool"]
  /\ UNCHANGED <<runnable, steps, currentQuestion, iterations, finalAnswer, prompt,
                 genCalls, synthCalls, loopEnded, response>>
  /\ UNCHANGED <<chunkVars, retrVars, pipeVars, parseVars>>

Step(r, call, obs) ==
  [run |-> r, action |-> call.action, actionInput |-> call.actionInput,
   observation |-> [kind |-> obs, run |-> r, iteration |-> iterations[r]]]

\* the completion names a tool that is not registered
AgentUnknownTool(r, c) ==
  /\ apc[r] = "awaitGen"
  /\ parseResponse(c).finalAnswer # "text"
  /\ parseResponse(c).action # "none"
  /\ parseResponse(c).actionInput # "none"
  /\ ~getTool(parseResponse(c).action)
  /\ LET call == [action |-> parseResponse(c).action,
                  actionInput |-> parseResponse(c).actionInput]
         s == Step(r, call, "unknownTool")
     IN LoopContinue(r, Append(steps, s),
                     Append(prompt[r], [kind |-> "observation", observation |-> s.observation]))

\* neither a final answer nor an action with input was parsed: the nudge
AgentNudge(r, c) ==
  /\ apc[r] = "awaitGen"
  /\ parseResponse(c).finalAnswer # "text"
  /\ parseResponse(c).action = "none" \/ parseResponse(c).actionInput = "none"
  /\ LoopContinue(r, steps, Append(prompt[r], [kind |-> "nudge"]))

\* llm.generate raises inside the loop: run() rejects
AgentGenerateFails(r) ==
  /\ apc[r] = "awaitGen"
  /\ apc' = [apc EXCEPT ![r] = "failed"]
  /\ UNCHANGED <<runnable, steps, currentQuestion, iterations, finalAnswer, prompt,
                 pendingCall, genCalls, synthCalls, toolCalls, loopEnded, response>>
  /\ UNCHANGED <<chunkVars, retrVars, pipeVars, parseVars>>

\* mutant: a raising tool.execute is not caught
AgentToolReturns_Propagates(r, ok) ==
  /\ apc[r] = "awaitTool"
  /\ IF ok
     THEN LET s == Step(r, pendingCall[r], "result")
          IN LoopContinue(r, Append(steps, s),
                          Append(prompt[r], [kind |-> "observation", observation |-> s.observation]))
     ELSE /\ apc' = [apc EXCEPT ![r] = "failed"]
          /\ UNCHANGED <<runnable, steps, currentQuestion, iterations, finalAnswer, prompt,
                         pendingCall, genCalls, synthCalls, toolCalls, loopEnded, response>>
          /\ UNCHANGED <<chunkVars, retrVars, pipeVars, parseVars>>

\* tool.execute returns (ok) or raises (~ok)
AgentToolReturns(r, ok) ==
  /\ apc[r] = "awaitTool"
  /\ LET s == Step(r, pendingCall[r], IF ok THEN "result" ELSE "error")
     IN LoopContinue(r, Append(steps, s),
                     Append(prompt[r], [kind |-> "observation", observation |-> s.observation]))

\* the generation call of synthesizeAnswer returns (ok) or raises (~ok)
AgentSynthGenReturns(r, ok) ==
  /\ apc[r] = "awaitSynthGen"
  /\ finalAnswer' = [finalAnswer EXCEPT ![r] = IF ok THEN @ ELSE fallbackSummary(steps)]
  /\ apc' = [apc EXCEPT ![r] = "awaitSynth"]
  /\ UNCHANGED <<runnable, steps, currentQuestion, iterations, prompt, pendingCall,
                 genCalls, synthCalls, toolCalls, loopEnded, response>>
  /\ UNCHANGED <<chunkVars, retrVars, pipeVars, parseVars>>

\* synthesizeAnswer has settled: run() builds its result and returns
AgentReturn(r) ==
  /\ apc[r] = "awaitSynth"
  /\ response' = [response EXCEPT ![r] = Returned(r, finalAnswer[r], steps)]
  /\ apc' = [apc EXCEPT ![r] = "done"]
  /\ UNCHANGED <<runnable, steps, currentQuestion, iterations, finalAnswer, prompt,
                 pendingCall, genCalls, synthCalls, toolCalls, loopEnded>>
  /\ UNCHANGED <<chunkVars, retrVars, pipeVars, parseVars>>

AgentStep(r) ==
  \/ AgentRun(r)
  \/ \E c \in Completions : AgentFinalAnswer(r, c)
  \/ \E c \in Completions : AgentDispatchTool(r, c)
  \/ \E c \in Completions : AgentUnknownTool(r, c)
  \/ \E c \in Completions : AgentNudge(r, c)
  \/ AgentGenerateFails(r)
  \/ \E ok \in BOOLEAN : AgentToolReturns(r, ok)
  \/ \E ok \in BOOLEAN : AgentSynthGenReturns(r, ok)
  \/ AgentReturn(r)

NextAgent == \E r \in Runs : AgentStep(r)

\* the completions of the runs that share the agent: a final answer, or a
\* search with a JSON input
SharedCompletions ==
  {[final |-> "text", action |-> "none", input |-> "none"],
   [final |-> "none", action |-> "search", input |-> "json"]}

\* a step of a run whose model calls and tool calls all succeed
AgentSharedStep(r) ==
  \/ AgentRun(r)
  \/ \E c \in SharedCompletions : AgentFinalAnswer(r, c)
  \/ \E c \in SharedCompletions : AgentDispatchTool(r, c)
  \/ AgentToolReturns(r, TRUE)
  \/ AgentSynthGenReturns(r, TRUE)
  \/ AgentReturn(r)

NextAgentShared == \E r \in Runs : AgentSharedStep(r)

(***************************************************************************)
(* Retriever                                                               *)
(***************************************************************************)
\* scores are counted in hundredths: 40 is the score 0.4
ChunkIds == {"k1", "k2", "k3"}

\* the words that occur in queries and chunk texts, with their lengths
WordLength == [zoo |-> 3, paris |-> 5, tokyo |-> 5]

\* a stored chunk: conversationId, participants, time range, and the words
\* that its text (sender and content of its messages, lowercased) contains
ChunkProfiles ==
  {[conversationId |-> "c1", participants |-> {"ann"}, startTime |-> 0, endTime |-> 1,
    words |-> {"paris"}],
   [conversationId |-> "c2", participants |-> {"bob"}, startTime |-> 2, endTime |-> 3,
    words |-> {"paris", "zoo"}],
   [conversationId |-> "c1", participants |-> {"ann", "bob"}, startTime |-> 1, endTime |-> 2,
    words |-> {}]}

KeywordLists ==
  {<<>>, <<"zoo">>, <<"paris">>, <<"paris", "zoo">>, <<"paris", "tokyo", "paris">>,
   <<"paris", "zoo", "paris", "zoo">>}

\* absent parts of the filters
NoParticipants == {}
NoConversation == ""
NoDate == -1
NoFilters ==
  [participants |-> NoParticipants, conversationId |-> NoConversation,
   start |-> NoDate, end |-> NoDate]

FilterChoices ==
  {NoFilters,
   [NoFilters EXCEPT !.participants = {"ann"}],
   [NoFilters EXCEPT !.conversationId = "c1"],
   [NoFilters EXCEPT !.start = 0, !.end = 1]}

\* topK and minScore of the call (the defaults are 5 and 0.4)
RetrieveChoices ==
  {[topK |-> 1, minScore |-> 40], [topK |-> 2, minScore |-> 40],
   [topK |-> 2, minScore |-> 60]}

VectorScores == {25, 50, 90}

Min(a, b) == IF a <= b THEN a ELSE b
Max(a, b) == IF a >= b THEN a ELSE b

\* text.includes(keyword), counted over the keywords
chunkContainsKeywords(chunk, kws) ==
  LET count == Cardinality({i \in 1..Len(kws) : kws[i] \in chunk.words})
  IN [matches |-> count > 0, count |-> count]

\* the must conditions that QdrantVectorStore.search builds from the filter
MatchesFilter(chunk, filter) ==
  /\ filter.participants # NoParticipants => chunk.participants \cap filter.participants # {}
  /\ filter.conversationId # NoConversation => chunk.conversationId = filter.conversationId
  /\ filter.start # NoDate => chunk.startTime >= filter.start
  /\ filter.end # NoDate => chunk.endTime <= filter.end

\* the options that retrieve hands to vectorStore.search
searchOptions(o) ==
  [topK |-> Max(o.topK * 5, 25),
   minScore |-> Max(o.minScore - 30, 20),
   filter |-> o.filters]

\* the lists of at most n hits (chunk id and score) that the store may return
\* for the search options so: every hit passes the filter and the score floor
RECURSIVE HitLists(_, _, _)
HitLists(n, so, cp) ==
  IF n = 0 THEN {<<>>}
  ELSE LET shorter == HitLists(n - 1, so, cp)
           hits == {[id |-> k, score |-> sc] : k \in ChunkIds, sc \in VectorScores}
           ok == {h \in hits : MatchesFilter(cp[h.id], so.filter) /\ h.score >= so.minScore}
       IN shorter \cup {Append(s, h) : s \in {t \in shorter : Len(t) = n - 1}, h \in ok}

\* matches.sort((a, b) => b.count - a.count): a stable sort
RECURSIVE InsertByCount(_, _)
InsertByCount(e, s) ==
  IF s = <<>> THEN <<e>>
  ELSE IF Last(s).count >= e.count THEN Append(s, e)
  ELSE Append(InsertByCount(e, Front(s)), Last(s))

RECURSIVE SortByCount(_)
SortByCount(s) ==
  IF s = <<>> THEN <<>>
  ELSE InsertByCount(Last(s), SortByCount(Front(s)))

\* mutant: a sort that is not stable (equal scores change places)
RECURSIVE InsertByScore_Unstable(_, _)
InsertByScore_Unstable(e, s) ==
  IF s = <<>> THEN <<e>>
  ELSE IF Last(s).score > e.score THEN Append(s, e)
  ELSE Append(InsertByScore_Unstable(e, Front(s)), Last(s))

\* allResults.sort((a, b) => b.score - a.score): a stable sort
RECURSIVE InsertByScore(_, _)
InsertByScore(e, s) ==
  IF s = <<>> THEN <<e>>
  ELSE IF Last(s).score >= e.score THEN Append(s, e)
  ELSE Append(InsertByScore(e, Front(s)), Last(s))

RECURSIVE SortByScore(_)
SortByScore(s) ==
  IF s = <<>> THEN <<>>
  ELSE InsertByScore(Last(s), SortByScore(Front(s)))

\* vectorStore.scrollAll(): the ids of all stored chunks
scrollAll == <<"k1", "k2", "k3">>

keywordSearch(kws, limit, cp) ==
  LET allChunks == scrollAll
      scanned == [i \in 1..Len(allChunks) |->
                    [id |-> allChunks[i],
                     count |-> chunkContainsKeywords(cp[allChunks[i]], kws).count]]
      matches == SelectSeq(scanned, LAMBDA m : m.count > 0)
      sorted == SortByCount(matches)
      top == SubSeq(sorted, 1, Min(limit, Len(sorted)))
  IN [i \in 1..Len(top) |-> top[i].id]

\* resultMap.has(id)
MapHas(m, id) == \E i \in 1..Len(m) : m[i].id = id

\* mutant: entries are pushed to a list, without a look at the key
MapSet_Push(m, e) == Append(m, e)

\* resultMap.set(e.id, e): a known key keeps its place in the insertion order
MapSet(m, e) ==
  IF MapHas(m, e.id)
  THEN [i \in 1..Len(m) |-> IF m[i].id = e.id THEN e ELSE m[i]]
  ELSE Append(m, e)

\* mutant: the keyword boost is not capped
RECURSIVE AddSemantic_NoBoostCap(_, _, _, _)
AddSemantic_NoBoostCap(m, rs, kws, cp) ==
  IF rs = <<>> THEN m
  ELSE LET r == Head(rs)
           found == chunkContainsKeywords(cp[r.id], kws)
           keywordBoost == IF found.matches THEN 20 * found.count ELSE 0
       IN AddSemantic_NoBoostCap(MapSet(m, [id |-> r.id,
                                            score |-> Min(r.score + keywordBoost, 100),
                                            hasKeywords |-> found.matches]),
                                 Tail(rs), kws, cp)

\* the loop over the semantic results
RECURSIVE AddSemantic(_, _, _, _)
AddSemantic(m, rs, kws, cp) ==
  IF rs = <<>> THEN m
  ELSE LET r == Head(rs)
           found == chunkContainsKeywords(cp[r.id], kws)
           keywordBoost == IF found.matches THEN Min(20 * found.count, 50) ELSE 0
       IN AddSemantic(MapSet(m, [id |-> r.id,
                                 score |-> Min(r.score + keywordBoost, 100),
                                 hasKeywords |-> found.matches]),
                      Tail(rs), kws, cp)

\* mutant: the score of a keyword-only entry is not capped
RECURSIVE AddKeywordOnly_NoCap(_, _, _, _)
AddKeywordOnly_NoCap(m, kcs, kws, cp) ==
  IF kcs = <<>> THEN m
  ELSE LET id == Head(kcs)
           count == chunkContainsKeywords(cp[id], kws).count
           score == 60 + 10 * count
       IN AddKeywordOnly_NoCap(IF ~MapHas(m, id)
                               THEN MapSet(m, [id |-> id, score |-> score, hasKeywords |-> TRUE])
                               ELSE m,
                               Tail(kcs), kws, cp)

\* the loop over the keyword-only results
RECURSIVE AddKeywordOnly(_, _, _, _)
AddKeywordOnly(m, kcs, kws, cp) ==
  IF kcs = <<>> THEN m
  ELSE LET id == Head(kcs)
           count == chunkContainsKeywords(cp[id], kws).count
           score == Min(60 + 10 * count, 90)
       IN AddKeywordOnly(IF ~MapHas(m, id)
                         THEN MapSet(m, [id |-> id, score |-> score, hasKeywords |-> TRUE])
                         ELSE m,
                         Tail(kcs), kws, cp)

\* sort, filter by minScore, take topK
Rank(m, o) ==
  LET allResults == SortByScore(m)
      passing == SelectSeq(allResults, LAMBDA e : e.score >= o.minScore)
  IN SubSeq(passing, 1, Min(o.topK, Len(passing)))

RetrievalResult(filtered) ==
  [chunks |-> [i \in 1..Len(filtered) |-> filtered[i].id],
   scores |-> [i \in 1..Len(filtered) |-> filtered[i].score]]

\* mutant: the keyword stage runs for keywords of any length
RunsKeywordStage_AnyLength(kws) == Len(kws) > 0

\* keywords.length > 0 && keywords.some(k => k.length >= 4)
RunsKeywordStage(kws) ==
  Len(kws) > 0 /\ \E i \in 1..Len(kws) : WordLength[kws[i]] >= 4

RetrieverIdle ==
  /\ rpc = "start"
  /\ results = <<>>
  /\ keywordChunks = <<>>
  /\ scrollCalls = 0
  /\ resultMap = <<>>
  /\ retrieved = [chunks |-> <<>>, scores |-> <<>>]

RetrieverInputs ==
  /\ corpus \in [ChunkIds -> ChunkProfiles]
  /\ keywords \in KeywordLists
  /\ \E c \in RetrieveChoices, f \in FilterChoices :
       retrieveOptions = [topK |-> c.topK, minScore |-> c.minScore, filters |-> f]
  /\ RetrieverIdle

\* no call of retrieve is made
RetrieverUnused ==
  /\ corpus = [k \in ChunkIds |-> CHOOSE p \in ChunkProfiles : p.words = {}]
  /\ keywords = <<>>
  /\ retrieveOptions = [topK |-> 5, minScore |-> 40, filters |-> NoFilters]
  /\ RetrieverIdle

\* the query is embedded and the vector store answers the search
RetrieveSearch ==
  /\ rpc = "start"
  /\ results' \in HitLists(Min(MaxHits, searchOptions(retrieveOptions).topK),
                           searchOptions(retrieveOptions), corpus)
  /\ rpc' = "searched"
  /\ UNCHANGED <<corpus, keywords, retrieveOptions, keywordChunks, scrollCalls, resultMap,
                 retrieved>>
  /\ UNCHANGED <<chunkVars, agentVars, pipeVars, parseVars>>

\* the fusion of the two stages and the return of retrieve
Fuse(kcs) ==
  /\ keywordChunks' = kcs
  /\ resultMap' = AddKeywordOnly(AddSemantic(<<>>, results, keywords, corpus),
                                 kcs, keywords, corpus)
  /\ retrieved' = RetrievalResult(Rank(resultMap', retrieveOptions))
  /\ rpc' = "done"
  /\ UNCHANGED <<corpus, keywords, retrieveOptions, results>>
  /\ UNCHANGED <<chunkVars, agentVars, pipeVars, parseVars>>

\* a keyword of 4 or more characters: the keyword stage runs, then the fusion
RetrieveWithKeywordStage ==
  /\ rpc = "searched"
  /\ RunsKeywordStage(keywords)
  /\ scrollCalls' = scrollCalls + 1
  /\ Fuse(keywordSearch(keywords, 10, corpus))

\* no such keyword: the fusion of the vector stage alone
RetrieveWithoutKeywordStage ==
  /\ rpc = "searched"
  /\ ~RunsKeywordStage(keywords)
  /\ UNCHANGED scrollCalls
  /\ Fuse(<<>>)

NextRetriever == RetrieveSearch \/ RetrieveWithKeywordStage \/ RetrieveWithoutKeywordStage

(***************************************************************************)
(* Ingestion pipeline                                                      *)
(***************************************************************************)
\* the job ids that nanoid() hands to the ingest calls
Jobs == {"j1", "j2"}

batchSize == 10

\* what a file parses and chunks to, and whether summaries are generated
JobInputs ==
  {[totalMessages |-> 0, totalChunks |-> 0, generateSummaries |-> FALSE],
   [totalMessages |-> 5, totalChunks |-> 2, generateSummaries |-> TRUE],
   [totalMessages |-> 40, totalChunks |-> 11, generateSummaries |-> FALSE],
   [totalMessages |-> 30, totalChunks |-> 11, generateSummaries |-> TRUE]}

\* the chunks (by index) whose summarization call may raise
SummaryMayFail == {1, 2, 11}

\* fields of IngestionProgress that are not set
Unset == -1
NoError == "unset"

\* the values that a stage may raise: an Error with a message, or another value
RaisedValues ==
  {[isError |-> TRUE, message |-> "stage failed"], [isError |-> FALSE, message |-> "value"]}
NotRaised == [isError |-> FALSE, message |-> "none"]

\* error instanceof Error ? error.message : 'Unknown error'
ErrorMessage(e) == IF e.isError THEN e.message ELSE "Unknown error"

ProgressFields ==
  {"jobId", "status", "totalMessages", "totalChunks", "processedChunks", "error",
   "startedAt", "completedAt"}

\* this.progress.get(jobId) || { jobId, status: 'pending' }
CurrentProgress(pm, jobId) ==
  IF jobId \in DOMAIN pm THEN pm[jobId]
  ELSE [jobId |-> jobId, status |-> "pending", totalMessages |-> Unset,
        totalChunks |-> Unset, processedChunks |-> Unset, error |-> NoError,
        startedAt |-> Unset, completedAt |-> Unset]

\* mutant: the update replaces the record instead of being merged into it
updateProgress_NoMerge(pm, jobId, update) ==
  LET current == CurrentProgress(<<>>, jobId)
      merged == [f \in ProgressFields |->
                   IF f \in DOMAIN update THEN update[f] ELSE current[f]]
  IN [k \in DOMAIN pm \cup {jobId} |-> IF k = jobId THEN merged ELSE pm[k]]

\* this.progress.set(jobId, { ...current, ...update })
updateProgress(pm, jobId, update) ==
  LET current == CurrentProgress(pm, jobId)
      merged == [f \in ProgressFields |->
                   IF f \in DOMAIN update THEN update[f] ELSE current[f]]
  IN [k \in DOMAIN pm \cup {jobId} |-> IF k = jobId THEN merged ELSE pm[k]]

\* getProgress(jobId)
getProgress(jobId) == IF jobId \in DOMAIN progress THEN progress[jobId] ELSE "null"

\* mutant: the slice is one chunk longer than the step of the loop
Batch_OneMore(j) ==
  [k \in 1..Min(batchSize + 1, jobInput[j].totalChunks - batchStart[j]) |-> batchStart[j] + k]

\* chunked.chunks.slice(i, i + batchSize), as chunk indices
Batch(j) ==
  [k \in 1..Min(batchSize, jobInput[j].totalChunks - batchStart[j]) |-> batchStart[j] + k]

PipelineIdle ==
  /\ progress = <<>>
  /\ jpc = [j \in Jobs |-> "idle"]
  /\ batchStart = [j \in Jobs |-> 0]
  /\ batchPos = [j \in Jobs |-> 0]
  /\ embeddings = [j \in Jobs |-> <<>>]
  /\ storedChunks = [j \in Jobs |-> <<>>]
  /\ upserted = [j \in Jobs |-> <<>>]
  /\ raised = [j \in Jobs |-> NotRaised]
  /\ thrown = [j \in Jobs |-> NotRaised]
  /\ stageCalls = [j \in Jobs |-> 0]
  /\ clock = 0

PipelineInputs ==
  /\ jobInput \in [Jobs -> JobInputs]
  /\ PipelineIdle

\* no call of ingest is made
PipelineUnused ==
  /\ jobInput = [j \in Jobs |->
                   [totalMessages |-> 0, totalChunks |-> 0, generateSummaries |-> FALSE]]
  /\ PipelineIdle

PipeOthers == <<chunkVars, agentVars, retrVars, parseVars>>

\* mutant: the first update is written to every record of the Map
PipeStart_AllRecords(j) ==
  /\ jpc[j] = "idle"
  /\ progress' = [k \in DOMAIN updateProgress(progress, j, [status |-> "pending"]) |->
                   updateProgress(updateProgress(progress, j, [status |-> "pending"]), k,
                                  [status |-> "pending", startedAt |-> clock])[k]]
  /\ clock' = clock + 1
  /\ jpc' = [jpc EXCEPT ![j] = "parse"]
  /\ UNCHANGED <<jobInput, batchStart, batchPos, embeddings, storedChunks, upserted,
                 raised, thrown, stageCalls>>
  /\ UNCHANGED PipeOthers

\* ingest: the job id, and the first progress record
PipeStart(j) ==
  /\ jpc[j] = "idle"
  /\ progress' = updateProgress(progress, j, [status |-> "pending", startedAt |-> clock])
  /\ clock' = clock + 1
  /\ jpc' = [jpc EXCEPT ![j] = "parse"]
  /\ UNCHANGED <<jobInput, batchStart, batchPos, embeddings, storedChunks, upserted,
                 raised, thrown, stageCalls>>
  /\ UNCHANGED PipeOthers

\* step 1: parseWhatsAppFile is called
PipeParse(j) ==
  /\ jpc[j] = "parse"
  /\ progress' = updateProgress(progress, j, [status |-> "parsing"])
  /\ stageCalls' = [stageCalls EXCEPT ![j] = @ + 1]
  /\ jpc' = [jpc EXCEPT ![j] = "awaitParse"]
  /\ UNCHANGED <<jobInput, batchStart, batchPos, embeddings, storedChunks, upserted,
                 raised, thrown, clock>>
  /\ UNCHANGED PipeOthers

\* the parser returns; step 2 begins
PipeParsed(j) ==
  /\ jpc[j] = "awaitParse"
  /\ progress' = updateProgress(
                   updateProgress(progress, j, [totalMessages |-> jobInput[j].totalMessages]),
                   j, [status |-> "chunking"])
  /\ jpc' = [jpc EXCEPT ![j] = "chunk"]
  /\ UNCHANGED <<jobInput, batchStart, batchPos, embeddings, storedChunks, upserted,
                 raised, thrown, stageCalls, clock>>
  /\ UNCHANGED PipeOthers

\* chunkMessages returns; step 3 begins
PipeChunked(j) ==
  /\ jpc[j] = "chunk"
  /\ progress' = updateProgress(
                   updateProgress(progress, j, [totalChunks |-> jobInput[j].totalChunks]),
                   j, [status |-> "embedding"])
  /\ batchStart' = [batchStart EXCEPT ![j] = 0]
  /\ storedChunks' = [storedChunks EXCEPT ![j] = <<>>]
  /\ jpc' = [jpc EXCEPT ![j] = "batch"]
  /\ UNCHANGED <<jobInput, batchPos, embeddings, upserted, raised, thrown, stageCalls, clock>>
  /\ UNCHANGED PipeOthers

\* the batch loop goes on: embedBatch is called for the next batch
PipeEmbedBatch(j) ==
  /\ jpc[j] = "batch"
  /\ batchStart[j] < jobInput[j].totalChunks
  /\ stageCalls' = [stageCalls EXCEPT ![j] = @ + 1]
  /\ jpc' = [jpc EXCEPT ![j] = "awaitEmbed"]
  /\ UNCHANGED <<progress, jobInput, batchStart, batchPos, embeddings, storedChunks,
                 upserted, raised, thrown, clock>>
  /\ UNCHANGED PipeOthers

StoredChunk(j, k, summary) ==
  [chunk |-> Batch(j)[k], embedding |-> embeddings[j][k], summary |-> summary]

\* the end of the loop over one batch
BatchDone(j, stored) ==
  /\ storedChunks' = [storedChunks EXCEPT ![j] = stored]
  /\ progress' = updateProgress(progress, j,
                                [processedChunks |-> batchStart[j] + Len(Batch(j))])
  /\ batchStart' = [batchStart EXCEPT ![j] = @ + batchSize]
  /\ jpc' = [jpc EXCEPT ![j] = "batch"]

\* embedBatch returns the embeddings of the batch, one per text
PipeEmbedded(j) ==
  /\ jpc[j] = "awaitEmbed"
  /\ embeddings' = [embeddings EXCEPT ![j] = [k \in 1..Len(Batch(j)) |-> Batch(j)[k]]]
  /\ IF jobInput[j].generateSummaries
     THEN /\ batchPos' = [batchPos EXCEPT ![j] = 1]
          /\ jpc' = [jpc EXCEPT ![j] = "awaitSummary"]
          /\ UNCHANGED <<progress, batchStart, storedChunks>>
     ELSE /\ BatchDone(j, storedChunks[j] \o
                          [k \in 1..Len(Batch(j)) |->
                             [chunk |-> Batch(j)[k], embedding |-> embeddings'[j][k],
                              summary |-> "undefined"]])
          /\ UNCHANGED batchPos
  /\ UNCHANGED <<jobInput, upserted, raised, thrown, stageCalls, clock>>
  /\ UNCHANGED PipeOthers

\* mutant: a raising summarization call is not caught
PipeSummarized_Aborts(j, ok) ==
  /\ jpc[j] = "awaitSummary"
  /\ ok \/ Batch(j)[batchPos[j]] \in SummaryMayFail
  /\ IF ok
     THEN LET stored == Append(storedChunks[j], StoredChunk(j, batchPos[j], "summary"))
          IN /\ IF batchPos[j] < Len(Batch(j))
                THEN /\ storedChunks' = [storedChunks EXCEPT ![j] = stored]
                     /\ batchPos' = [batchPos EXCEPT ![j] = @ + 1]
                     /\ UNCHANGED <<progress, batchStart, jpc>>
                ELSE /\ BatchDone(j, stored)
                     /\ UNCHANGED batchPos
             /\ UNCHANGED <<raised, thrown, clock>>
     ELSE /\ raised' = [raised EXCEPT ![j] = [isError |-> TRUE, message |-> "stage failed"]]
          /\ thrown' = raised'
          /\ progress' = updateProgress(progress, j,
                           [status |-> "failed", error |-> "stage failed",
                            completedAt |-> clock])
          /\ clock' = clock + 1
          /\ jpc' = [jpc EXCEPT ![j] = "thrown"]
          /\ UNCHANGED <<batchStart, batchPos, storedChunks>>
  /\ UNCHANGED <<jobInput, embeddings, upserted, stageCalls>>
  /\ UNCHANGED PipeOthers

\* generateSummary returns: the summary, or '' when the model call raised
PipeSummarized(j, ok) ==
  /\ jpc[j] = "awaitSummary"
  /\ ok \/ Batch(j)[batchPos[j]] \in SummaryMayFail
  /\ LET stored == Append(storedChunks[j],
                          StoredChunk(j, batchPos[j], IF ok THEN "summary" ELSE ""))
     IN IF batchPos[j] < Len(Batch(j))
        THEN /\ storedChunks' = [storedChunks EXCEPT ![j] = stored]
             /\ batchPos' = [batchPos EXCEPT ![j] = @ + 1]
             /\ UNCHANGED <<progress, batchStart, jpc>>
        ELSE /\ BatchDone(j, stored)
             /\ UNCHANGED batchPos
  /\ UNCHANGED <<jobInput, embeddings, upserted, raised, thrown, stageCalls, clock>>
  /\ UNCHANGED PipeOthers

\* mutant: the job is marked completed before the upsert is awaited
PipeStore_CompletedEarly(j) ==
  /\ jpc[j] = "batch"
  /\ batchStart[j] >= jobInput[j].totalChunks
  /\ progress' = updateProgress(progress, j, [status |-> "completed", completedAt |-> clock])
  /\ stageCalls' = [stageCalls EXCEPT ![j] = @ + 1]
  /\ jpc' = [jpc EXCEPT ![j] = "awaitStore"]
  /\ UNCHANGED <<jobInput, batchStart, batchPos, embeddings, storedChunks, upserted,
                 raised, thrown, clock>>
  /\ UNCHANGED PipeOthers

\* step 4: the batch loop is over and upsertBatch is called
PipeStore(j) ==
  /\ jpc[j] = "batch"
  /\ batchStart[j] >= jobInput[j].totalChunks
  /\ progress' = updateProgress(progress, j, [status |-> "storing"])
  /\ stageCalls' = [stageCalls EXCEPT ![j] = @ + 1]
  /\ jpc' = [jpc EXCEPT ![j] = "awaitStore"]
  /\ UNCHANGED <<jobInput, batchStart, batchPos, embeddings, storedChunks, upserted,
                 raised, thrown, clock>>
  /\ UNCHANGED PipeOthers

\* upsertBatch returns: the job is complete and ingest returns
PipeStored(j) ==
  /\ jpc[j] = "awaitStore"
  /\ upserted' = [upserted EXCEPT ![j] = storedChunks[j]]
  /\ progress' = updateProgress(progress, j, [status |-> "completed", completedAt |-> clock])
  /\ clock' = clock + 1
  /\ jpc' = [jpc EXCEPT ![j] = "returned"]
  /\ UNCHANGED <<jobInput, batchStart, batchPos, embeddings, storedChunks, raised, thrown,
                 stageCalls>>
  /\ UNCHANGED PipeOthers

\* the positions at which a stage inside the try block may raise: the parser,
\* chunkMessages, embedBatch, upsertBatch
RaisingPositions == {"awaitParse", "chunk", "awaitEmbed", "awaitStore"}

\* a stage raises e: the catch block records the failure and rethrows
PipeFail(j, e) ==
  /\ jpc[j] \in RaisingPositions
  /\ raised' = [raised EXCEPT ![j] = e]
  /\ progress' = updateProgress(progress, j,
                   [status |-> "failed", error |-> ErrorMessage(e), completedAt |-> clock])
  /\ clock' = clock + 1
  /\ thrown' = [thrown EXCEPT ![j] = e]
  /\ jpc' = [jpc EXCEPT ![j] = "thrown"]
  /\ UNCHANGED <<jobInput, batchStart, batchPos, embeddings, storedChunks, upserted,
                 stageCalls>>
  /\ UNCHANGED PipeOthers

PipeStep(j) ==
  \/ PipeStart(j)
  \/ PipeParse(j)
  \/ PipeParsed(j)
  \/ PipeChunked(j)
  \/ PipeEmbedBatch(j)
  \/ PipeEmbedded(j)
  \/ \E ok \in BOOLEAN : PipeSummarized(j, ok)
  \/ PipeStore(j)
  \/ PipeStored(j)
  \/ \E e \in RaisedValues : PipeFail(j, e)

NextPipeline == \E j \in Jobs : PipeStep(j)

(***************************************************************************)
(* Export parser                                                           *)
(***************************************************************************)
\* strings are sequences of characters; "d", "s" and "m" stand for a text
\* that a deleted, a system and a media pattern matches
Whitespace == {" ", "\n"}

RECURSIVE TrimStart(_)
TrimStart(str) ==
  IF str # <<>> /\ Head(str) \in Whitespace THEN TrimStart(Tail(str)) ELSE str

RECURSIVE TrimEnd(_)
TrimEnd(str) ==
  IF str # <<>> /\ Last(str) \in Whitespace THEN TrimEnd(Front(str)) ELSE str

\* String.prototype.trim
Trim(str) == TrimEnd(TrimStart(str))

Includes(str, ch) == \E i \in 1..Len(str) : str[i] = ch

\* a line of the file:
\*   text:       the line as it stands (one letter stands for the whole of a
\*               line that begins with a timestamp)
\*   stamp:      whether a pattern of DATE_FORMATS matches the line
\*   year, month, minute: the year and the month as written and the time of
\*               the matched timestamp (the day is the first of the month
\*               and the hour is below 24)
\*   sep:        whether a separator follows the timestamp
\*   colonIndex: the index of the first colon in what follows the separator
\*   name, body: the text before that colon, and the text after it (the whole
\*               text after the separator when the colon is not used)
PlainLine(text) ==
  [text |-> text, stamp |-> FALSE, year |-> 0, month |-> 0, minute |-> 0, sep |-> FALSE,
   colonIndex |-> -1, name |-> "", body |-> <<>>]

StampedLine(year, minute, colonIndex, name, body) ==
  [text |-> <<"t">>, stamp |-> TRUE, year |-> year, month |-> 1, minute |-> minute,
   sep |-> TRUE, colonIndex |-> colonIndex, name |-> name, body |-> body]

\* a line with a timestamp of the given month
DatedLine(year, month, name, body) ==
  [StampedLine(year, 10, 4, name, body) EXCEPT !.month = month]

LineChoices ==
  {PlainLine(<<" ">>),
   PlainLine(<<"x">>),
   PlainLine(<<" ", "y", " ">>),
   StampedLine(23, 30, 4, "John", <<" ", "a">>),
   StampedLine(2023, 20, 4, "Jane", <<>>),
   StampedLine(23, 10, -1, "", <<"s">>),
   StampedLine(5, 40, 4, "John", <<"a">>),
   StampedLine(23, 50, 4, "Jane", <<"d">>)}

NoTimestamp == [year |-> 0, month |-> 0, minute |-> 0]

normalizeYear(year) ==
  IF year < 100 THEN (IF year >= 50 THEN 1900 + year ELSE 2000 + year) ELSE year

\* new Date(year, monthIndex, ...): a month index outside 0..11 carries over
\* into the year
NewDate(year, monthIndex, minute) ==
  [year |-> year + (monthIndex \div 12), month |-> (monthIndex % 12) + 1, minute |-> minute]

\* the Date of the matched timestamp, or null when its year is out of range
parseDateFromMatch(line) ==
  LET year == normalizeYear(line.year)
      date == NewDate(year, line.month - 1, line.minute)
  IN IF date.year < 2009 \/ date.year > 2100 THEN NoTimestamp ELSE date

NoParse == [ok |-> FALSE, timestamp |-> NoTimestamp, sender |-> "", content |-> <<>>]

\* mutant: a colon at any index above 0 ends the sender
parseMessageLine_AnyColon(line) ==
  IF ~line.stamp THEN NoParse
  ELSE IF parseDateFromMatch(line) = NoTimestamp THEN NoParse
  ELSE IF ~line.sep THEN NoParse
  ELSE IF line.colonIndex > 0
       THEN [ok |-> TRUE, timestamp |-> parseDateFromMatch(line),
             sender |-> line.name, content |-> Trim(line.body)]
       ELSE [ok |-> TRUE, timestamp |-> parseDateFromMatch(line),
             sender |-> "", content |-> Trim(line.body)]

\* parseMessageLine: the start of a message, or null
parseMessageLine(line) ==
  IF ~line.stamp THEN NoParse
  ELSE IF parseDateFromMatch(line) = NoTimestamp THEN NoParse
  ELSE IF ~line.sep THEN NoParse
  ELSE IF line.colonIndex > 0 /\ line.colonIndex < 50
       THEN [ok |-> TRUE, timestamp |-> parseDateFromMatch(line),
             sender |-> line.name, content |-> Trim(line.body)]
       ELSE [ok |-> TRUE, timestamp |-> parseDateFromMatch(line),
             sender |-> "", content |-> Trim(line.body)]

\* MEDIA_PLACEHOLDERS, in the order of its entries: "m" stands for
\* '<Media omitted>' and "i" for 'image omitted'
MEDIA_PLACEHOLDERS ==
  <<[placeholder |-> "m", mediaType |-> "media"],
    [placeholder |-> "i", mediaType |-> "image"]>>

\* the message has no mediaType property
NoMediaType == "undefined"

\* "f" stands for a text that the file-attached pattern matches, of a .pdf
detectMediaTypeFromFilename(content) == "document"

\* mutant: the system rule is tried before the deleted rule
finalizeMessage_SystemFirst(message) ==
  LET content == Trim(message.content)
      matching == {k \in 1..Len(MEDIA_PLACEHOLDERS) :
                     Includes(content, MEDIA_PLACEHOLDERS[k].placeholder)}
      first == CHOOSE k \in matching : \A o \in matching : k <= o
      base == [id |-> message.id, timestamp |-> message.timestamp,
               sender |-> message.sender, content |-> content]
  IN IF message.sender = "" \/ Includes(content, "s")
     THEN base @@ [type |-> "system", mediaType |-> NoMediaType]
     ELSE IF Includes(content, "d")
     THEN base @@ [type |-> "deleted", mediaType |-> NoMediaType]
     ELSE IF matching # {}
     THEN base @@ [type |-> "media", mediaType |-> MEDIA_PLACEHOLDERS[first].mediaType]
     ELSE IF Includes(content, "f")
     THEN base @@ [type |-> "media", mediaType |-> detectMediaTypeFromFilename(content)]
     ELSE base @@ [type |-> "text", mediaType |-> NoMediaType]

\* finalizeMessage: the content is trimmed and the type is detected
finalizeMessage(message) ==
  LET content == Trim(message.content)
      matching == {k \in 1..Len(MEDIA_PLACEHOLDERS) :
                     Includes(content, MEDIA_PLACEHOLDERS[k].placeholder)}
      first == CHOOSE k \in matching : \A o \in matching : k <= o
      base == [id |-> message.id, timestamp |-> message.timestamp,
               sender |-> message.sender, content |-> content]
  IN IF Includes(content, "d")
     THEN base @@ [type |-> "deleted", mediaType |-> NoMediaType]
     ELSE IF message.sender = "" \/ Includes(content, "s")
     THEN base @@ [type |-> "system", mediaType |-> NoMediaType]
     ELSE IF matching # {}
     THEN base @@ [type |-> "media", mediaType |-> MEDIA_PLACEHOLDERS[first].mediaType]
     ELSE IF Includes(content, "f")
     THEN base @@ [type |-> "media", mediaType |-> detectMediaTypeFromFilename(content)]
     ELSE base @@ [type |-> "text", mediaType |-> NoMediaType]

\* currentMessage = null
NoCurrent == [open |-> FALSE, id |-> 0, timestamp |-> NoTimestamp, sender |-> "",
              content |-> <<>>]

\* the accumulator is finalized and pushed, unless the options filter it out
PushFinalized(out, current, options) ==
  IF ~current.open THEN out
  ELSE LET finalMessage == finalizeMessage(current)
       IN IF finalMessage.type = "system" /\ ~options.includeSystemMessages THEN out
          ELSE IF finalMessage.type = "deleted" /\ ~options.includeDeletedMessages THEN out
          ELSE Append(out, finalMessage)

\* participantsSet after the accumulator is finalized: its sender is added
\* when the message is pushed, has a sender and is no system message
AddParticipant(names, current, options) ==
  IF ~current.open THEN names
  ELSE LET finalMessage == finalizeMessage(current)
       IN IF finalMessage.type = "system" /\ ~options.includeSystemMessages THEN names
          ELSE IF finalMessage.type = "deleted" /\ ~options.includeDeletedMessages THEN names
          ELSE IF finalMessage.sender # "" /\ finalMessage.type # "system"
               THEN names \cup {finalMessage.sender}
               ELSE names

\* the sender names in the order of Array.prototype.sort
NameOrder == <<"Jane", "John">>
InSet(names) == LET Test(n) == n \in names IN SelectSeq(NameOrder, Test)

\* messages.filter((m) => m.type === type).length
CountType(out, type) == Cardinality({i \in 1..Len(out) : out[i].type = type})

\* no result is returned yet
NoResult ==
  [returned |-> FALSE, messages |-> <<>>, participants |-> <<>>,
   startDate |-> NoTimestamp, endDate |-> NoTimestamp,
   metadata |-> [totalMessages |-> 0, textMessages |-> 0, mediaMessages |-> 0,
                 systemMessages |-> 0, deletedMessages |-> 0]]

\* the ParserResult: null dates are NoTimestamp
ResultOf(out, names) ==
  [returned |-> TRUE,
   messages |-> out,
   participants |-> InSet(names),
   startDate |-> IF Len(out) > 0 THEN out[1].timestamp ELSE NoTimestamp,
   endDate |-> IF Len(out) > 0 THEN out[Len(out)].timestamp ELSE NoTimestamp,
   metadata |-> [totalMessages |-> Len(out),
                 textMessages |-> CountType(out, "text"),
                 mediaMessages |-> CountType(out, "media"),
                 systemMessages |-> CountType(out, "system"),
                 deletedMessages |-> CountType(out, "deleted")]]

\* the files of n lines
RECURSIVE FilesOf(_)
FilesOf(n) ==
  IF n = 0 THEN {<<>>}
  ELSE {Append(f, l) : f \in FilesOf(n - 1), l \in LineChoices}

\* the files of n lines drawn from choices
RECURSIVE FilesFrom(_, _)
FilesFrom(n, choices) ==
  IF n = 0 THEN {<<>>}
  ELSE {Append(f, l) : f \in FilesFrom(n - 1, choices), l \in choices}

\* the bodies of header lines that the classification rules tell apart
TypedBodies ==
  {<<"a">>, <<"d">>, <<"s">>, <<"m">>, <<"i">>, <<"f">>,
   <<"s", "d">>, <<"m", "s">>, <<"i", "m">>, <<"f", "i">>, <<"f", "d">>}

\* header lines with and without a sender (no colon, a colon at index 0, 49
\* and 50), and lines that start no message
TypedLineChoices ==
  {StampedLine(23, 10, 4, "Jane", b) : b \in TypedBodies}
    \cup {StampedLine(23, 20, -1, "", b) : b \in TypedBodies}
    \cup {StampedLine(23, 30, 0, "", <<"a">>), StampedLine(23, 30, 49, "Jane", <<"a">>),
          StampedLine(23, 30, 50, "Long", <<"a">>)}
    \cup {PlainLine(<<" ">>), PlainLine(<<"d">>), PlainLine(<<"s">>), PlainLine(<<"m">>)}

\* header lines of two-digit and four-digit years and of months in and out
\* of the calendar, and lines that start no message
DatedLineChoices ==
  {DatedLine(y, m, "Jane", <<"a">>) : y \in {8, 23, 49, 50, 68, 2100}, m \in {0, 1, 12, 13}}
    \cup {PlainLine(<<" ">>), PlainLine(<<"x">>)}

ParserIdle ==
  /\ ppc = "lines"
  /\ lineNo = 1
  /\ currentMessage = NoCurrent
  /\ parserMessages = <<>>
  /\ participantsSet = {}
  /\ parserResult = NoResult

ParserInputs ==
  /\ \E n \in 0..MaxLines : fileLines \in FilesOf(n)
  /\ parserOptions \in [includeSystemMessages : BOOLEAN, includeDeletedMessages : BOOLEAN]
  /\ ParserIdle

\* files of few lines, of every kind of content
ParserTypedInputs ==
  /\ \E n \in 0..MaxTypedLines : fileLines \in FilesFrom(n, TypedLineChoices)
  /\ parserOptions \in [includeSystemMessages : BOOLEAN, includeDeletedMessages : BOOLEAN]
  /\ ParserIdle

\* files of few lines, of every kind of date
ParserDatedInputs ==
  /\ \E n \in 0..MaxDatedLines : fileLines \in FilesFrom(n, DatedLineChoices)
  /\ parserOptions \in [includeSystemMessages : BOOLEAN, includeDeletedMessages : BOOLEAN]
  /\ ParserIdle

\* no call of parseWhatsAppExport is made
ParserUnused ==
  /\ fileLines = <<>>
  /\ parserOptions = [includeSystemMessages |-> TRUE, includeDeletedMessages |-> TRUE]
  /\ ParserIdle

ParseOthers == <<chunkVars, agentVars, retrVars, pipeVars>>

\* a blank line: continue
ParseBlank ==
  /\ ppc = "lines"
  /\ lineNo <= Len(fileLines)
  /\ Trim(fileLines[lineNo].text) = <<>>
  /\ lineNo' = lineNo + 1
  /\ UNCHANGED <<ppc, fileLines, parserOptions, currentMessage, parserMessages,
                 participantsSet, parserResult>>
  /\ UNCHANGED ParseOthers

\* the line starts a message: the open message is finalized and pushed, and
\* the new one is opened
ParseHeader ==
  /\ ppc = "lines"
  /\ lineNo <= Len(fileLines)
  /\ Trim(fileLines[lineNo].text) # <<>>
  /\ parseMessageLine(fileLines[lineNo]).ok
  /\ parserMessages' = PushFinalized(parserMessages, currentMessage, parserOptions)
  /\ participantsSet' = AddParticipant(participantsSet, currentMessage, parserOptions)
  /\ currentMessage' = [open |-> TRUE, id |-> lineNo,
                        timestamp |-> parseMessageLine(fileLines[lineNo]).timestamp,
                        sender |-> parseMessageLine(fileLines[lineNo]).sender,
                        content |-> parseMessageLine(fileLines[lineNo]).content]
  /\ lineNo' = lineNo + 1
  /\ UNCHANGED <<ppc, fileLines, parserOptions, parserResult>>
  /\ UNCHANGED ParseOthers

\* mutant: the line is appended without the newline
ParseContinuation_NoNewline ==
  /\ ppc = "lines"
  /\ lineNo <= Len(fileLines)
  /\ Trim(fileLines[lineNo].text) # <<>>
  /\ ~parseMessageLine(fileLines[lineNo]).ok
  /\ currentMessage.open
  /\ currentMessage' = [currentMessage EXCEPT !.content = @ \o fileLines[lineNo].text]
  /\ lineNo' = lineNo + 1
  /\ UNCHANGED <<ppc, fileLines, parserOptions, parserMessages, participantsSet,
                 parserResult>>
  /\ UNCHANGED ParseOthers

\* the line starts no message and a message is open: a continuation
ParseContinuation ==
  /\ ppc = "lines"
  /\ lineNo <= Len(fileLines)
  /\ Trim(fileLines[lineNo].text) # <<>>
  /\ ~parseMessageLine(fileLines[lineNo]).ok
  /\ currentMessage.open
  /\ currentMessage' = [currentMessage EXCEPT !.content = @ \o <<"\n">> \o fileLines[lineNo].text]
  /\ lineNo' = lineNo + 1
  /\ UNCHANGED <<ppc, fileLines, parserOptions, parserMessages, participantsSet,
                 parserResult>>
  /\ UNCHANGED ParseOthers

\* the line starts no message and no message is open: nothing is done
ParseStray ==
  /\ ppc = "lines"
  /\ lineNo <= Len(fileLines)
  /\ Trim(fileLines[lineNo].text) # <<>>
  /\ ~parseMessageLine(fileLines[lineNo]).ok
  /\ ~currentMessage.open
  /\ lineNo' = lineNo + 1
  /\ UNCHANGED <<ppc, fileLines, parserOptions, currentMessage, parserMessages,
                 participantsSet, parserResult>>
  /\ UNCHANGED ParseOthers

\* mutant: the last message is pushed whatever its type
ParseFinish_NoFilter ==
  /\ ppc = "lines"
  /\ lineNo > Len(fileLines)
  /\ LET AllOn == [includeSystemMessages |-> TRUE, includeDeletedMessages |-> TRUE]
     IN /\ parserMessages' = PushFinalized(parserMessages, currentMessage, AllOn)
        /\ participantsSet' = AddParticipant(participantsSet, currentMessage, AllOn)
  /\ parserResult' = ResultOf(parserMessages', participantsSet')
  /\ ppc' = "done"
  /\ UNCHANGED <<fileLines, parserOptions, lineNo, currentMessage>>
  /\ UNCHANGED ParseOthers

\* after the last line: the open message is finalized and pushed, the
\* metadata is calculated and the result is returned
ParseFinish ==
  /\ ppc = "lines"
  /\ lineNo > Len(fileLines)
  /\ parserMessages' = PushFinalized(parserMessages, currentMessage, parserOptions)
  /\ participantsSet' = AddParticipant(participantsSet, currentMessage, parserOptions)
  /\ parserResult' = ResultOf(parserMessages', participantsSet')
  /\ ppc' = "done"
  /\ UNCHANGED <<fileLines, parserOptions, lineNo, currentMessage>>
  /\ UNCHANGED ParseOthers

NextParser == ParseBlank \/ ParseHeader \/ ParseContinuation \/ ParseStray \/ ParseFinish

(***************************************************************************)
(* Specifications                                                          *)
(***************************************************************************)
InitChunker == ChunkerInputs /\ AgentIdle /\ RetrieverUnused /\ PipelineUnused /\ ParserUnused

InitChunkerTight ==
  ChunkerTightInputs /\ AgentIdle /\ RetrieverUnused /\ PipelineUnused /\ ParserUnused

SpecChunkerTight == InitChunkerTight /\ [][NextChunker]_vars

SpecChunker == InitChunker /\ [][NextChunker]_vars

InitAgent == ChunkerUnused /\ AgentInputs /\ RetrieverUnused /\ PipelineUnused /\ ParserUnused

SpecAgent == InitAgent /\ [][NextAgent]_vars

InitRetriever == ChunkerUnused /\ AgentIdle /\ RetrieverInputs /\ PipelineUnused /\ ParserUnused

SpecRetriever == InitRetriever /\ [][NextRetriever]_vars

InitPipeline == ChunkerUnused /\ AgentIdle /\ RetrieverUnused /\ PipelineInputs /\ ParserUnused

InitParser == ChunkerUnused /\ AgentIdle /\ RetrieverUnused /\ PipelineUnused /\ ParserInputs

SpecParser == InitParser /\ [][NextParser]_vars

InitParserTyped ==
  ChunkerUnused /\ AgentIdle /\ RetrieverUnused /\ PipelineUnused /\ ParserTypedInputs

SpecParserTyped == InitParserTyped /\ [][NextParser]_vars

InitParserDated ==
  ChunkerUnused /\ AgentIdle /\ RetrieverUnused /\ PipelineUnused /\ ParserDatedInputs

SpecParserDated == InitParserDated /\ [][NextParser]_vars

SpecPipeline == InitPipeline /\ [][NextPipeline]_vars

\* every call that an ingest call awaits returns or raises
SpecPipelineFair == SpecPipeline /\ \A j \in Jobs : WF_vars(PipeStep(j))

\* every model call and every tool call that a run() awaits returns or raises
InitAgentShared ==
  ChunkerUnused /\ AgentSharedInputs /\ RetrieverUnused /\ PipelineUnused /\ ParserUnused

SpecAgentShared == InitAgentShared /\ [][NextAgentShared]_vars

SpecAgentFair == SpecAgent /\ \A r \in Runs : WF_vars(AgentStep(r))

(***************************************************************************)
(* Properties of the chunker                                               *)
(***************************************************************************)
ChunkMessages(cs) == Flatten([i \in 1..Len(cs) |-> cs[i].messages])

\* the index of the chunk of cs that holds the message with identity id
ChunkIndexOf(cs, id) ==
  CHOOSE c \in 1..Len(cs) : \E j \in 1..Len(cs[c].messages) : cs[c].messages[j].id = id

\* the chunk that is open when the greedy loop reaches sortedMessages[k]:
\* the messages of the greedy chunk of sortedMessages[k-1], up to that message
OpenChunkAt(k) ==
  LET c == chunks[ChunkIndexOf(chunks, sortedMessages[k - 1].id)].messages
      p == CHOOSE j \in 1..Len(c) : c[j].id = sortedMessages[k - 1].id
  IN SubSeq(c, 1, p)

SizeTriggeredAt(k) ==
  \/ getMessagesCharCount(OpenChunkAt(k)) + getMessageCharCount(sortedMessages[k])
       > opts.maxChunkChars
  \/ Len(OpenChunkAt(k)) >= opts.maxMessages

GapAt(k) == sortedMessages[k].ts - sortedMessages[k - 1].ts

SameChunk(cs, k) ==
  ChunkIndexOf(cs, sortedMessages[k - 1].id) = ChunkIndexOf(cs, sortedMessages[k].id)

HoldsEveryMessageOnce(cs) ==
  /\ SumSeq([i \in 1..Len(cs) |-> cs[i].messageCount]) = Len(messages)
  /\ Len(ChunkMessages(cs)) = Len(messages)
  /\ \A k \in 1..Len(messages) :
       Cardinality({j \in 1..Len(ChunkMessages(cs)) : ChunkMessages(cs)[j] = messages[k]}) = 1

\* C1: the chunks of the greedy partition and the chunks returned by
\* chunkMessages hold every input message exactly once, and the message
\* counts of the chunks add up to the number of input messages.
C1_NoMessageLostOrDuplicated ==
  /\ cpc = "partitioned" => HoldsEveryMessageOnce(chunks)
  /\ cpc = "done" => HoldsEveryMessageOnce(mergedChunks)

\* a run in which the merge pass has merged chunks of a partition of 3 chunks
C1_Witness ==
  /\ cpc = "done"
  /\ Len(chunks) >= 3
  /\ Len(mergedChunks) = 2
  /\ HoldsEveryMessageOnce(mergedChunks)

\* C8 as stated: two adjacent messages at least gapMinutes apart, with no size
\* limit triggered, are in different chunks of the output.
C8_GapSplitsOutput ==
  cpc = "done" =>
    \A k \in 2..Len(sortedMessages) :
      (GapAt(k) >= opts.gapMinutes /\ ~SizeTriggeredAt(k)) => ~SameChunk(mergedChunks, k)

\* C8 amended: two adjacent messages at least gapMinutes apart, with no size
\* limit triggered, are in different chunks of the greedy partition; they
\* are in different chunks of the output when the greedy chunks on both sides
\* of the gap hold at least minMessages messages each.
C8_GapSplitsPartition ==
  cpc \in {"partitioned", "done"} =>
    \A k \in 2..Len(sortedMessages) :
      (GapAt(k) >= opts.gapMinutes /\ ~SizeTriggeredAt(k)) =>
        /\ ~SameChunk(chunks, k)
        /\ (/\ cpc = "done"
            /\ chunks[ChunkIndexOf(chunks, sortedMessages[k - 1].id)].messageCount
                 >= opts.minMessages
            /\ chunks[ChunkIndexOf(chunks, sortedMessages[k].id)].messageCount
                 >= opts.minMessages)
           => ~SameChunk(mergedChunks, k)

\* a gap between two greedy chunks of at least minMessages (2 or more)
\* messages each, kept apart by the merge pass
C8_Witness ==
  /\ cpc = "done"
  /\ opts.minMessages >= 2
  /\ \E k \in 2..Len(sortedMessages) :
       /\ GapAt(k) >= opts.gapMinutes
       /\ ~SizeTriggeredAt(k)
       /\ chunks[ChunkIndexOf(chunks, sortedMessages[k - 1].id)].messageCount
            >= opts.minMessages
       /\ chunks[ChunkIndexOf(chunks, sortedMessages[k].id)].messageCount
            >= opts.minMessages
       /\ ~SameChunk(mergedChunks, k)

\* C9: two adjacent messages less than gapMinutes apart are in the same chunk
\* of the greedy partition and of the output whenever the open chunk holds
\* fewer than maxMessages messages and its cost plus the cost of the new
\* message does not exceed maxChunkChars.
C9_CloseMessagesShareChunk ==
  cpc \in {"partitioned", "done"} =>
    \A k \in 2..Len(sortedMessages) :
      (GapAt(k) < opts.gapMinutes /\ ~SizeTriggeredAt(k)) =>
        /\ SameChunk(chunks, k)
        /\ cpc = "done" => SameChunk(mergedChunks, k)

\* two close messages that share a chunk which the merge pass has extended
C9_Witness ==
  /\ cpc = "done"
  /\ Len(mergedChunks) < Len(chunks)
  /\ \E k \in 2..Len(sortedMessages) :
       /\ GapAt(k) < opts.gapMinutes
       /\ ~SizeTriggeredAt(k)
       /\ SameChunk(mergedChunks, k)
       /\ mergedChunks[ChunkIndexOf(mergedChunks, sortedMessages[k].id)].messageCount > 2

\* C10: every chunk returned by chunkMessages holds at most maxMessages
\* messages.
C10_AtMostMaxMessages ==
  cpc = "done" =>
    \A c \in 1..Len(mergedChunks) : mergedChunks[c].messageCount <= opts.maxMessages

(***************************************************************************)
(* Properties of the agent                                                 *)
(***************************************************************************)
\* C2: a run() issues at most 5 generation calls inside its loop; once the
\* loop has ended (by a final answer or after 5 iterations) the run() does
\* not fail, and it returns an answer.
C2_BoundedLoopThenAnswer ==
  /\ [](\A r \in Runs :
          /\ genCalls[r] <= 5
          /\ loopEnded[r] => apc[r] \in {"awaitSynthGen", "awaitSynth", "done"}
          /\ apc[r] = "done" => response[r].answer.kind # "none")
  /\ \A r \in Runs : loopEnded[r] ~> (apc[r] = "done")

\* a run() that has used its 5 iterations and returned the synthesized answer
C2_Witness ==
  /\ apc["r1"] = "done"
  /\ genCalls["r1"] = 5
  /\ iterations["r1"] = 5
  /\ response["r1"].answer.kind = "synthesis"

(***************************************************************************)
(* Properties of the retriever                                             *)
(***************************************************************************)
ResultIds == {results[i].id : i \in 1..Len(results)}
KeywordIds == {keywordChunks[i] : i \in 1..Len(keywordChunks)}
ReturnedIds == {retrieved.chunks[i] : i \in 1..Len(retrieved.chunks)}

\* the place at which a chunk id is first seen: in the vector stage's hits,
\* then in the keyword stage's chunks
SeenIds == [i \in 1..Len(results) |-> results[i].id] \o keywordChunks
FirstSeen(id) == CHOOSE i \in 1..Len(SeenIds) :
                   SeenIds[i] = id /\ \A j \in 1..(i - 1) : SeenIds[j] # id

\* the fused entry of a chunk id
EntryOf(id) == resultMap[CHOOSE i \in 1..Len(resultMap) : resultMap[i].id = id]

\* the fused entries that pass minScore
Passing == {i \in 1..Len(resultMap) : resultMap[i].score >= retrieveOptions.minScore}

\* C3: the result of retrieve holds no chunk id twice, and its chunks and
\* scores have the same length.
C3_NoDuplicateChunkIds ==
  rpc = "done" =>
    /\ Len(retrieved.chunks) = Len(retrieved.scores)
    /\ \A i, j \in 1..Len(retrieved.chunks) :
         retrieved.chunks[i] = retrieved.chunks[j] => i = j

\* a chunk id returned twice by the vector stage and again by the keyword
\* stage, in a result of two chunks
C3_Witness ==
  /\ rpc = "done"
  /\ Len(retrieved.chunks) = 2
  /\ \E i, j \in 1..Len(results) :
       /\ i # j
       /\ results[i].id = results[j].id
       /\ results[i].id \in KeywordIds
       /\ results[i].id \in ReturnedIds

\* C4: retrieve returns the first topK of the fused entries that pass
\* minScore, in non-increasing score order, equal scores in first-seen order
\* (so vector-stage entries before keyword-only ones): scores do not increase,
\* all are at least minScore, there are at most topK, and no omitted passing
\* entry scores higher than, or ties ahead of, a returned one.
C4_TopKInScoreOrder ==
  rpc = "done" =>
    LET n == Len(retrieved.chunks) IN
    /\ n = Min(retrieveOptions.topK, Cardinality(Passing))
    /\ \A i \in 1..n :
         /\ MapHas(resultMap, retrieved.chunks[i])
         /\ retrieved.scores[i] = EntryOf(retrieved.chunks[i]).score
         /\ retrieved.scores[i] >= retrieveOptions.minScore
    /\ \A i, j \in 1..n :
         i < j =>
           /\ retrieved.scores[i] >= retrieved.scores[j]
           /\ retrieved.scores[i] = retrieved.scores[j] =>
                /\ FirstSeen(retrieved.chunks[i]) < FirstSeen(retrieved.chunks[j])
                /\ retrieved.chunks[j] \in ResultIds => retrieved.chunks[i] \in ResultIds
    /\ \A p \in Passing :
         resultMap[p].id \notin ReturnedIds =>
           \A i \in 1..n :
             /\ retrieved.scores[i] >= resultMap[p].score
             /\ retrieved.scores[i] = resultMap[p].score =>
                  FirstSeen(retrieved.chunks[i]) < FirstSeen(resultMap[p].id)

\* a vector-stage entry and a keyword-only entry tie, the vector-stage entry
\* is returned first, and a passing entry is cut off by topK
C4_Witness ==
  /\ rpc = "done"
  /\ Cardinality(Passing) > retrieveOptions.topK
  /\ Len(retrieved.chunks) = 2
  /\ retrieved.scores[1] = retrieved.scores[2]
  /\ retrieved.chunks[1] \in ResultIds
  /\ retrieved.chunks[2] \notin ResultIds

\* what the filters of a retrieve call ask of a chunk
SatisfiesFilters(chunk, f) ==
  /\ f.participants # NoParticipants => chunk.participants \cap f.participants # {}
  /\ (f.start # NoDate /\ f.end # NoDate) =>
       (chunk.startTime <= f.end /\ chunk.endTime >= f.start)
  /\ f.conversationId # NoConversation => chunk.conversationId = f.conversationId

\* C5: every chunk in the result of a retrieve call with filters satisfies
\* the filters: one of the listed participants, a time range that overlaps
\* the date range, the given conversationId.
C5_ResultSatisfiesFilters ==
  rpc = "done" =>
    \A i \in 1..Len(retrieved.chunks) :
      SatisfiesFilters(corpus[retrieved.chunks[i]], retrieveOptions.filters)

(***************************************************************************)
(* Properties of the ingestion pipeline                                    *)
(***************************************************************************)
\* the fields of a progress record that a failure must leave as they were
RecordedFields == {"jobId", "totalMessages", "totalChunks", "processedChunks", "startedAt"}

\* C6: when a stage of ingest raises, the progress record of the job gets the
\* status failed, the message of the raised error and a completedAt, keeps the
\* fields recorded before, and ingest throws the raised value; after that the
\* job does nothing more (no retry).
C6_FailureIsRecordedAndPropagated ==
  [][\A j \in Jobs :
       /\ raised'[j] # raised[j] =>
            /\ j \in DOMAIN progress /\ j \in DOMAIN progress'
            /\ progress'[j].status = "failed"
            /\ progress'[j].error = ErrorMessage(raised'[j])
            /\ progress'[j].completedAt # Unset
            /\ \A f \in RecordedFields : progress'[j][f] = progress[j][f]
            /\ thrown'[j] = raised'[j]
            /\ jpc'[j] = "thrown"
       /\ jpc[j] = "thrown" =>
            /\ jpc'[j] = "thrown"
            /\ progress'[j] = progress[j]
            /\ stageCalls'[j] = stageCalls[j]
            /\ thrown'[j] = thrown[j]
            /\ storedChunks'[j] = storedChunks[j]]_vars

\* the embedding of the second batch has raised an Error: the record is
\* failed and keeps the counts of the first batch
C6_Witness ==
  \E j \in Jobs :
    /\ jpc[j] = "thrown"
    /\ thrown[j] = [isError |-> TRUE, message |-> "stage failed"]
    /\ progress[j].status = "failed"
    /\ progress[j].error = "stage failed"
    /\ progress[j].processedChunks = 10
    /\ progress[j].totalChunks = 11
    /\ progress[j].startedAt # Unset
    /\ progress[j].completedAt # Unset

StatusOrder == <<"pending", "parsing", "chunking", "embedding", "storing", "completed">>
StatusRank(st) == CHOOSE i \in 1..Len(StatusOrder) : StatusOrder[i] = st

\* C7: the status of a progress record starts as pending and moves only one
\* stage forward along pending, parsing, chunking, embedding, storing,
\* completed, or from a status other than completed and failed to failed;
\* completedAt is set exactly when the status is completed or failed.
C7_StatusMovesForward ==
  /\ [](\A j \in DOMAIN progress :
          (progress[j].completedAt # Unset) <=> (progress[j].status \in {"completed", "failed"}))
  /\ [][\A j \in DOMAIN progress' :
          IF j \notin DOMAIN progress
          THEN progress'[j].status = "pending"
          ELSE \/ progress'[j].status = progress[j].status
               \/ /\ progress[j].status \notin {"completed", "failed"}
                  /\ progress'[j].status = "failed"
               \/ /\ progress[j].status \notin {"completed", "failed"}
                  /\ progress'[j].status # "failed"
                  /\ StatusRank(progress'[j].status) = StatusRank(progress[j].status) + 1]_vars

\* one job has gone through all the stages, another has failed while storing
C7_Witness ==
  \E j, k \in Jobs :
    /\ j \in DOMAIN progress /\ k \in DOMAIN progress
    /\ progress[j].status = "completed" /\ jpc[j] = "returned"
    /\ progress[j].processedChunks = 11
    /\ progress[k].status = "failed" /\ jpc[k] = "thrown"

(***************************************************************************)
(* Properties of the chunker: order                                        *)
(***************************************************************************)
Ascending(msgs) == \A i \in 1..Len(msgs) - 1 : msgs[i].ts <= msgs[i + 1].ts

DistinctIds(msgs) == \A i, j \in 1..Len(msgs) : msgs[i].id = msgs[j].id => i = j

WellFormedChunk(c) ==
  /\ Len(c.messages) > 0
  /\ Ascending(c.messages)
  /\ DistinctIds(c.messages)
  /\ c.startTime = c.messages[1].ts
  /\ c.endTime = c.messages[Len(c.messages)].ts
  /\ \A i \in 1..Len(c.messages) :
       c.startTime <= c.messages[i].ts /\ c.messages[i].ts <= c.endTime

InTimeOrder(cs) ==
  /\ \A c \in 1..Len(cs) : WellFormedChunk(cs[c])
  /\ \A c \in 1..Len(cs) - 1 : cs[c].endTime <= cs[c + 1].startTime
  /\ ChunkMessages(cs) = sortedMessages
  /\ Ascending(sortedMessages)
  /\ Len(sortedMessages) = Len(messages)

\* C11: in every chunk of the greedy partition and in every chunk returned
\* by chunkMessages, the messages are in ascending timestamp order without
\* duplicates, startTime and endTime are the timestamps of the first and of
\* the last message and bound every message timestamp; the chunks are in
\* ascending time order and their concatenation is the sorted input.
C11_ChunksInTimeOrder ==
  /\ cpc = "partitioned" => InTimeOrder(chunks)
  /\ cpc = "done" /\ Len(messages) > 0 => InTimeOrder(mergedChunks)

\* an unsorted input whose partition the merge pass has changed, returned as
\* at least two chunks, one of them spanning different timestamps
C11_Witness ==
  /\ cpc = "done"
  /\ ~Ascending(messages)
  /\ Len(mergedChunks) >= 2
  /\ Len(mergedChunks) < Len(chunks)
  /\ \E c \in 1..Len(mergedChunks) : mergedChunks[c].startTime < mergedChunks[c].endTime
  /\ InTimeOrder(mergedChunks)

(***************************************************************************)
(* Properties of the agent: the ways an iteration ends                     *)
(***************************************************************************)
\* run() r receives the completion c of the generation call it awaits
ReceivesCompletion(r, c) ==
  \/ AgentFinalAnswer(r, c)
  \/ AgentDispatchTool(r, c)
  \/ AgentUnknownTool(r, c)
  \/ AgentNudge(r, c)

\* run() r has returned in this step, with the final answer of iteration k
ReturnsFinalAnswerOf(r, k) ==
  /\ apc'[r] = "done"
  /\ loopEnded'[r]
  /\ genCalls'[r] = k
  /\ toolCalls'[r] = toolCalls[r]
  /\ synthCalls'[r] = 0
  /\ response'[r].answer = [kind |-> "final", iteration |-> k]
  /\ k = 1 => response'[r].reasoning = <<>>

\* C12: when the completion of iteration k holds a `Final Answer:` section,
\* the run() returns in that iteration with the captured answer: k generation
\* calls were made, no tool is dispatched in iteration k, no synthesis call is
\* made, and for k = 1 the reasoning trace is empty; a run() that returned a
\* final answer has made no synthesis call.
C12_FinalAnswerEndsLoop ==
  /\ [](\A r \in Runs :
          apc[r] = "done" /\ response[r].answer.kind = "final"
            => synthCalls[r] = 0 /\ genCalls[r] = response[r].answer.iteration)
  /\ [][\A r \in Runs : \A c \in Completions :
          c.final # "none" /\ ReceivesCompletion(r, c)
            => ReturnsFinalAnswerOf(r, iterations[r])]_vars

\* the observations that run() r has appended to its prompt
PromptObservations(r) ==
  LET obs == SelectSeq(prompt[r], LAMBDA e : e.kind = "observation")
  IN [i \in 1..Len(obs) |-> obs[i].observation]

\* this step of run() r records one step with an observation of kind k for
\* the action a, appends the observation to the prompt, and goes on to the
\* loop test
RecordsObservation(r, a, k) ==
  /\ Len(steps') = Len(steps) + 1
  /\ SubSeq(steps', 1, Len(steps)) = steps
  /\ Last(steps').action = a
  /\ Last(steps').observation = [kind |-> k, run |-> r, iteration |-> iterations[r]]
  /\ Len(prompt'[r]) = Len(prompt[r]) + 1
  /\ Last(prompt'[r]) = [kind |-> "observation", observation |-> Last(steps').observation]
  /\ IF iterations[r] < MAX_ITERATIONS
     THEN apc'[r] = "awaitGen" /\ iterations'[r] = iterations[r] + 1 /\ ~loopEnded'[r]
     ELSE apc'[r] \in {"awaitSynthGen", "awaitSynth"} /\ loopEnded'[r]

\* C13: in the loop, an action with an input gives exactly one observation
\* and does not make run() fail: the result when execute returns, an error
\* observation when execute raises, an unknown-tool observation (without a
\* call of execute) when the name is not registered; the step is recorded,
\* the observation is appended to the prompt, and the loop goes on.  run()
\* fails only while it awaits a generation call of the loop.
C13_ActionGivesOneObservation ==
  /\ [](\A r \in runnable : apc[r] # "idle" =>
          /\ PromptObservations(r) = [i \in 1..Len(steps) |-> steps[i].observation]
          /\ toolCalls[r] = Cardinality({i \in 1..Len(steps) : steps[i].observation.kind # "unknownTool"})
                              + (IF apc[r] = "awaitTool" THEN 1 ELSE 0))
  /\ [][\A r \in Runs :
          /\ apc'[r] = "failed" /\ apc[r] # "failed" => apc[r] = "awaitGen"
          /\ \A c \in Completions :
               AgentDispatchTool(r, c) =>
                 apc'[r] = "awaitTool" /\ toolCalls'[r] = toolCalls[r] + 1 /\ steps' = steps
          /\ \A c \in Completions :
               AgentUnknownTool(r, c) =>
                 RecordsObservation(r, c.action, "unknownTool") /\ toolCalls'[r] = toolCalls[r]
          /\ \A ok \in BOOLEAN :
               AgentToolReturns(r, ok) =>
                 RecordsObservation(r, pendingCall[r].action, IF ok THEN "result" ELSE "error")]_vars

\* a run() that has returned after a tool result, a raising tool and an
\* unknown tool
C13_Witness ==
  /\ apc["r1"] = "done"
  /\ \A k \in {"result", "error", "unknownTool"} :
       \E i \in 1..Len(steps) : steps[i].observation.kind = k
  /\ PromptObservations("r1") = [i \in 1..Len(steps) |-> steps[i].observation]

\* the observations recorded in this.steps that are not errors
NonErrorObservations ==
  LET kept == SelectSeq(steps, LAMBDA st : st.observation.kind \notin {"error", "unknownTool"})
  IN [i \in 1..Len(kept) |-> kept[i].observation]

\* the loop of run() r has ended by exhausting its iterations
Exhausted(r) == loopEnded[r] /\ finalAnswer[r].kind # "final"

\* C14: when the loop has made its 5 iterations without a final answer and
\* some recorded observation is not an error, exactly one synthesis call is
\* made, over the non-error observations only, and when it fails the answer
\* is the template over these observations; when no observation is usable,
\* no synthesis call is made and the fixed message is the answer.  run()
\* does not fail in this phase, and it makes no synthesis call when the loop
\* ended with a final answer.
C14_SynthesisAfterExhaustion ==
  /\ [](\A r \in Runs :
          /\ ~loopEnded[r] => synthCalls[r] = 0
          /\ loopEnded[r] /\ finalAnswer[r].kind = "final" => synthCalls[r] = 0
          /\ Exhausted(r) =>
               /\ genCalls[r] = MAX_ITERATIONS
               /\ apc[r] \in {"awaitSynthGen", "awaitSynth", "done"}
               /\ apc[r] = "done" => response[r].answer = finalAnswer[r]
               /\ IF NonErrorObservations = <<>>
                  THEN /\ synthCalls[r] = 0
                       /\ apc[r] # "awaitSynthGen"
                       /\ finalAnswer[r] = [kind |-> "noInformation"]
                  ELSE /\ synthCalls[r] = 1
                       /\ finalAnswer[r] \in
                            {[kind |-> "synthesis", question |-> r,
                              observations |-> NonErrorObservations],
                             [kind |-> "fallback", observations |-> NonErrorObservations]}
                       /\ apc[r] = "awaitSynthGen" => finalAnswer[r].kind = "synthesis")
  /\ [][\A r \in Runs :
          /\ AgentSynthGenReturns(r, FALSE) =>
               finalAnswer'[r] = [kind |-> "fallback", observations |-> NonErrorObservations]
          /\ AgentSynthGenReturns(r, TRUE) => finalAnswer'[r] = finalAnswer[r]]_vars

\* a run() that has returned the template after a failed synthesis call,
\* with an error observation and a tool result among its steps
C14_Witness ==
  /\ apc["r1"] = "done"
  /\ Exhausted("r1")
  /\ synthCalls["r1"] = 1
  /\ response["r1"].answer.kind = "fallback"
  /\ Len(NonErrorObservations) >= 1
  /\ Len(NonErrorObservations) < Len(steps)

(***************************************************************************)
(* Properties of the retriever: the fused scores                           *)
(***************************************************************************)
\* the number of keywords of the query that the text of chunk id contains
MatchCount(id) == Cardinality({i \in 1..Len(keywords) : keywords[i] \in corpus[id].words})

\* the hit that resultMap keeps for its chunk id: no later hit has that id
\* (the vector store returns a point once, so this is every hit)
KeptHit(i) == \A j \in (i + 1)..Len(results) : results[j].id # results[i].id

\* the score returned for chunk id, when it is returned
ReturnedScoreIs(id, score) ==
  \A p \in 1..Len(retrieved.chunks) : retrieved.chunks[p] = id => retrieved.scores[p] = score

\* C15: a chunk that the vector stage returned with score s and that holds
\* c of the keywords has the fused score min(s + min(0.2 c, 0.5), 1.0), which
\* is at least s and at most 1, also when the keyword stage returned it too.
C15_BoostedVectorScore ==
  rpc = "done" =>
    \A i \in 1..Len(results) :
      KeptHit(i) =>
        LET id == results[i].id
            s == results[i].score
            fused == Min(s + Min(20 * MatchCount(id), 50), 100)
        IN /\ Cardinality({e \in 1..Len(resultMap) : resultMap[e].id = id}) = 1
           /\ EntryOf(id).score = fused
           /\ s <= EntryOf(id).score
           /\ EntryOf(id).score <= 100
           /\ ReturnedScoreIs(id, fused)

\* a hit in both stages whose boost is capped at 0.5, and a hit whose fused
\* score is capped at 1.0, both returned
C15_Witness ==
  /\ rpc = "done"
  /\ \E i, j \in 1..Len(results) :
       /\ results[i].id # results[j].id
       /\ results[i].id \in KeywordIds
       /\ MatchCount(results[i].id) >= 3
       /\ EntryOf(results[i].id).score = results[i].score + 50
       /\ MatchCount(results[j].id) >= 1
       /\ results[j].score + 20 * MatchCount(results[j].id) > 100
       /\ EntryOf(results[j].id).score = 100
       /\ {results[i].id, results[j].id} \subseteq ReturnedIds

\* C16: a chunk that the keyword stage returned and the vector stage did not,
\* holding c of the keywords, has the fused score min(0.6 + 0.1 c, 0.9), which
\* lies between 0.6 and 0.9.
C16_KeywordOnlyScore ==
  rpc = "done" =>
    \A id \in KeywordIds \ ResultIds :
      LET score == Min(60 + 10 * MatchCount(id), 90)
      IN /\ Cardinality({e \in 1..Len(resultMap) : resultMap[e].id = id}) = 1
         /\ EntryOf(id).score = score
         /\ EntryOf(id).hasKeywords
         /\ 60 <= EntryOf(id).score
         /\ EntryOf(id).score <= 90
         /\ ReturnedScoreIs(id, score)

\* two keyword-only chunks are returned, one with one match and one that
\* reaches the cap with four matches
C16_Witness ==
  /\ rpc = "done"
  /\ \E a, b \in (KeywordIds \ ResultIds) \cap ReturnedIds :
       /\ MatchCount(a) = 4
       /\ EntryOf(a).score = 90
       /\ MatchCount(b) < 3
       /\ EntryOf(b).score = 60 + 10 * MatchCount(b)

\* no keyword of the query has 4 or more characters
OnlyShortKeywords == \A i \in 1..Len(keywords) : WordLength[keywords[i]] < 4

\* C17: when no keyword of the query has 4 or more characters, the keyword
\* stage does not run (scrollAll is not called), every returned chunk is a
\* hit of the vector stage, and without hits the result is empty.
C17_ShortKeywordsSkipKeywordStage ==
  (rpc = "done" /\ OnlyShortKeywords) =>
    /\ scrollCalls = 0
    /\ keywordChunks = <<>>
    /\ ReturnedIds \subseteq ResultIds
    /\ results = <<>> => retrieved.chunks = <<>> /\ retrieved.scores = <<>>

\* a query with one keyword of 3 characters that a stored chunk contains,
\* no hits of the vector stage, and an empty result
C17_Witness ==
  /\ rpc = "done"
  /\ keywords = <<"zoo">>
  /\ \E k \in ChunkIds : "zoo" \in corpus[k].words
  /\ results = <<>>
  /\ retrieved.chunks = <<>>
  /\ scrollCalls = 0

(***************************************************************************)
(* Properties of the pipeline: interleaved jobs, summaries                 *)
(***************************************************************************)
\* the fields of the record of job j that this step changes
ChangedFields(j) ==
  {f \in ProgressFields : progress'[j][f] # CurrentProgress(progress, j)[f]}

\* the fields named in the updates of each step of ingest
UpdateFields(j) ==
  CASE PipeStart(j) -> {"status", "startedAt"}
    [] PipeParse(j) -> {"status"}
    [] PipeParsed(j) -> {"totalMessages", "status"}
    [] PipeChunked(j) -> {"totalChunks", "status"}
    [] PipeEmbedBatch(j) -> {}
    [] PipeEmbedded(j) -> {"processedChunks"}
    [] PipeSummarized(j, TRUE) \/ PipeSummarized(j, FALSE) -> {"processedChunks"}
    [] PipeStore(j) -> {"status"}
    [] PipeStored(j) -> {"status", "completedAt"}
    [] \E e \in RaisedValues : PipeFail(j, e) -> {"status", "error", "completedAt"}
    [] OTHER -> {}

\* an id that no ingest call has been given
UnknownJob == "j0"

\* C18: with ingest calls interleaved at their awaits, a step of one call
\* changes only the progress record under its own job id, and in it only the
\* fields named in its updates; the records of the other jobs stay as they
\* are, and getProgress of an id that no call created returns null.
C18_UpdatesTouchOwnRecordOnly ==
  /\ [](/\ getProgress(UnknownJob) = "null"
        /\ DOMAIN progress = {j \in Jobs : jpc[j] # "idle"}
        /\ \A j \in Jobs : jpc[j] = "idle" => getProgress(j) = "null"
        /\ \A j \in DOMAIN progress : getProgress(j).jobId = j)
  /\ [][\A j \in Jobs :
          PipeStep(j) =>
            /\ DOMAIN progress' = DOMAIN progress \cup {j}
            /\ \A k \in DOMAIN progress \ {j} : progress'[k] = progress[k]
            /\ ChangedFields(j) \subseteq UpdateFields(j)]_vars

\* two calls are under way, each past an update of its own: the records
\* differ in status and in the counts
C18_Witness ==
  /\ jpc["j1"] = "awaitEmbed"
  /\ jpc["j2"] = "awaitStore"
  /\ progress["j1"].status = "embedding"
  /\ progress["j2"].status = "storing"
  /\ progress["j1"].totalChunks = 11
  /\ progress["j1"].processedChunks = 10
  /\ progress["j2"].totalChunks = 2
  /\ progress["j2"].processedChunks = 2
  /\ progress["j1"].startedAt > progress["j2"].startedAt

\* the chunks of job j, embedded, in order
AllChunksIn(j, stored) ==
  /\ Len(stored) = jobInput[j].totalChunks
  /\ \A k \in 1..Len(stored) :
       /\ stored[k].chunk = k
       /\ stored[k].embedding = k
       /\ stored[k].summary \in
            (IF jobInput[j].generateSummaries THEN {"summary", ""} ELSE {"undefined"})

IsBlankLine(i) == Trim(fileLines[i].text) = <<>>
IsHeaderLine(i) == ~IsBlankLine(i) /\ parseMessageLine(fileLines[i]).ok

\* line i follows the header line h with no header line in between
FollowsHeader(h, i) == h < i /\ \A k \in (h + 1)..i : ~IsHeaderLine(k)

\* the content of the message that the header line h opens: the content of
\* the header, then a newline and the line for each non-blank line up to
\* the next header line
ContentOf(h) ==
  parseMessageLine(fileLines[h]).content \o
  Flatten([k \in 1..(Len(fileLines) - h) |->
             IF ~IsBlankLine(h + k) /\ FollowsHeader(h, h + k)
             THEN <<"\n">> \o fileLines[h + k].text
             ELSE <<>>])

\* the header lines whose message the options keep
KeptHeaders ==
  {h \in 1..Len(fileLines) :
     /\ IsHeaderLine(h)
     /\ LET type == finalizeMessage([id |-> h, timestamp |-> NoTimestamp,
                                     sender |-> parseMessageLine(fileLines[h]).sender,
                                     content |-> ContentOf(h)]).type
        IN /\ type = "system" => parserOptions.includeSystemMessages
           /\ type = "deleted" => parserOptions.includeDeletedMessages}

\* C20: a non-blank line that starts no message is appended, after a
\* newline, to the content of the message that the last header line opened,
\* and changes nothing when no header line precedes it; the output holds the
\* finalized messages in the order of their header lines, each with the
\* content of its header and of its continuation lines, and the parser has a
\* step to take on every line of every file (it never raises).
C20_ContinuationLines ==
  /\ [](ppc = "lines" => ENABLED NextParser)
  /\ [](ppc = "done" =>
          /\ {parserMessages[i].id : i \in 1..Len(parserMessages)} = KeptHeaders
          /\ \A i \in 1..Len(parserMessages) - 1 :
               parserMessages[i].id < parserMessages[i + 1].id
          /\ \A i \in 1..Len(parserMessages) :
               /\ parserMessages[i].content = Trim(ContentOf(parserMessages[i].id))
               /\ parserMessages[i].timestamp =
                    parseMessageLine(fileLines[parserMessages[i].id]).timestamp
               /\ parserMessages[i].sender =
                    parseMessageLine(fileLines[parserMessages[i].id]).sender)
  /\ [][/\ ParseContinuation =>
            /\ currentMessage'.content =
                 currentMessage.content \o <<"\n">> \o fileLines[lineNo].text
            /\ currentMessage'.id = currentMessage.id
            /\ currentMessage'.id < lineNo
            /\ FollowsHeader(currentMessage.id, lineNo)
            /\ parserMessages' = parserMessages
        /\ ParseStray =>
            /\ \A k \in 1..lineNo : ~IsHeaderLine(k)
            /\ currentMessage' = NoCurrent
            /\ parserMessages' = <<>>]_vars

\* a file of a stray line, a header line, a continuation line and a second
\* header line: two messages, the first with the continuation in its
\* content, the stray line in none
C20_Witness ==
  /\ ppc = "done"
  /\ Len(fileLines) = 4
  /\ ~IsHeaderLine(1) /\ ~IsBlankLine(1)
  /\ IsHeaderLine(2)
  /\ ~IsHeaderLine(3) /\ ~IsBlankLine(3)
  /\ IsHeaderLine(4)
  /\ Len(parserMessages) = 2
  /\ parserMessages[1].id = 2
  /\ parserMessages[1].content =
       parseMessageLine(fileLines[2]).content \o <<"\n">> \o fileLines[3].text
  /\ parserMessages[2].id = 4

(***************************************************************************)
(* Properties of the classification                                        *)
(***************************************************************************)
MessageTypes == {"deleted", "system", "media", "text"}

DeletedRule(content) == Includes(content, "d")
SystemRule(sender, content) == sender = "" \/ Includes(content, "s")
MediaRule(content) ==
  Includes(content, "m") \/ Includes(content, "i") \/ Includes(content, "f")

\* the type of the first rule that applies
TypeByPriority(sender, content) ==
  CASE DeletedRule(content) -> "deleted"
    [] ~DeletedRule(content) /\ SystemRule(sender, content) -> "system"
    [] ~DeletedRule(content) /\ ~SystemRule(sender, content) /\ MediaRule(content) -> "media"
    [] OTHER -> "text"

\* the options keep a message of this type
KeepsType(type) ==
  /\ type = "system" => parserOptions.includeSystemMessages
  /\ type = "deleted" => parserOptions.includeDeletedMessages

\* C21: every message the parser finalizes gets the type of the first rule
\* that applies to its trimmed content, in the order deleted pattern, system
\* pattern or empty sender, media placeholder or file-attached pattern,
\* text; a message that is not pushed is one whose type the options filter
\* out; and only a message of type media has a mediaType.
C21_TypeByFirstRule ==
  /\ [](\A i \in 1..Len(parserMessages) :
          /\ parserMessages[i].type \in MessageTypes
          /\ parserMessages[i].type =
               TypeByPriority(parserMessages[i].sender, parserMessages[i].content)
          /\ parserMessages[i].mediaType # NoMediaType => parserMessages[i].type = "media")
  /\ [][(ParseHeader \/ ParseFinish) /\ currentMessage.open =>
          LET type == TypeByPriority(currentMessage.sender, Trim(currentMessage.content))
          IN IF KeepsType(type)
             THEN /\ Len(parserMessages') = Len(parserMessages) + 1
                  /\ Last(parserMessages').id = currentMessage.id
                  /\ Last(parserMessages').type = type
                  /\ Front(parserMessages') = parserMessages
             ELSE parserMessages' = parserMessages]_vars

\* a message whose content matches the system and the deleted pattern is
\* deleted, and one that matches the file-attached pattern and a
\* placeholder is media with the type of the placeholder
C21_Witness ==
  /\ ppc = "done"
  /\ Len(parserMessages) = 2
  /\ parserMessages[1].content = <<"s", "d">>
  /\ parserMessages[1].type = "deleted"
  /\ parserMessages[1].mediaType = NoMediaType
  /\ parserMessages[2].sender = "Jane"
  /\ parserMessages[2].content = <<"f", "i">>
  /\ parserMessages[2].type = "media"
  /\ parserMessages[2].mediaType = "image"

(***************************************************************************)
(* Properties of the options                                               *)
(***************************************************************************)
\* the header lines of the file, in order
HeaderSeq ==
  LET IsHeader(i) == IsHeaderLine(i)
  IN SelectSeq([i \in 1..Len(fileLines) |-> i], IsHeader)

\* the finalized message that the header line h opens
MessageOf(h) ==
  finalizeMessage([id |-> h,
                   timestamp |-> parseMessageLine(fileLines[h]).timestamp,
                   sender |-> parseMessageLine(fileLines[h]).sender,
                   content |-> ContentOf(h)])

\* the messages of the file when nothing is filtered out
AllMessages == [k \in 1..Len(HeaderSeq) |-> MessageOf(HeaderSeq[k])]

KeptMessages == LET Kept(m) == KeepsType(m.type) IN SelectSeq(AllMessages, Kept)

\* the senders that count as participants among the messages out
ParticipantsOf(out) ==
  {out[i].sender : i \in {k \in 1..Len(out) : out[k].sender # "" /\ out[k].type # "system"}}

\* C22: when the parser returns, the output holds no system message if
\* includeSystemMessages is false and no deleted message if
\* includeDeletedMessages is false; it is the list of all the messages of
\* the file (the output with both options on) without the filtered ones, in
\* the same order, the last message of the file included; and the
\* participants, the date range and the counts of the result are those of
\* the output messages.
C22_OptionsFilterOutput ==
  ppc = "done" =>
    /\ ~parserOptions.includeSystemMessages =>
          \A i \in 1..Len(parserMessages) : parserMessages[i].type # "system"
    /\ ~parserOptions.includeDeletedMessages =>
          \A i \in 1..Len(parserMessages) : parserMessages[i].type # "deleted"
    /\ parserMessages = KeptMessages
    /\ parserOptions.includeSystemMessages /\ parserOptions.includeDeletedMessages =>
          parserMessages = AllMessages
    /\ parserResult.returned
    /\ parserResult.messages = parserMessages
    /\ parserResult.participants = InSet(ParticipantsOf(parserMessages))
    /\ parserResult.startDate =
         (IF parserMessages = <<>> THEN NoTimestamp ELSE Head(parserMessages).timestamp)
    /\ parserResult.endDate =
         (IF parserMessages = <<>> THEN NoTimestamp ELSE Last(parserMessages).timestamp)
    /\ parserResult.metadata.totalMessages = Len(parserMessages)
    /\ \A i \in 1..Len(parserMessages) :
         parserMessages[i].type \in {"text", "media", "system", "deleted"}
    /\ parserResult.metadata.textMessages + parserResult.metadata.mediaMessages
         + parserResult.metadata.systemMessages + parserResult.metadata.deletedMessages
         = Len(parserMessages)
    /\ parserResult.metadata.systemMessages =
         Cardinality({i \in 1..Len(parserMessages) : parserMessages[i].type = "system"})
    /\ parserResult.metadata.deletedMessages =
         Cardinality({i \in 1..Len(parserMessages) : parserMessages[i].type = "deleted"})
    /\ parserResult.metadata.textMessages =
         Cardinality({i \in 1..Len(parserMessages) : parserMessages[i].type = "text"})

\* both options are off and the file holds a text message of John, a
\* system message and, last, a deleted message of Jane: only John's message
\* is returned, and John is the only participant
C22_Witness ==
  /\ ppc = "done"
  /\ ~parserOptions.includeSystemMessages
  /\ ~parserOptions.includeDeletedMessages
  /\ Len(AllMessages) = 3
  /\ AllMessages[1].type = "text"
  /\ AllMessages[2].type = "system"
  /\ AllMessages[3].type = "deleted"
  /\ AllMessages[3].sender = "Jane"
  /\ Len(parserMessages) = 1
  /\ parserResult.participants = <<"John">>
  /\ parserResult.metadata.totalMessages = 1
  /\ parserResult.endDate = parserMessages[1].timestamp

(***************************************************************************)
(* Properties of the dates                                                 *)
(***************************************************************************)
\* the year that the claim gives to a year as written
ClaimedYear(y) == IF y < 100 THEN (IF y < 50 THEN 2000 + y ELSE 1900 + y) ELSE y

\* C23: a header line with a two-digit year y gives a date of the year
\* 2000 + y when y < 50 and 1900 + y otherwise, a line read so far starts a
\* message exactly when that year lies within 2009 to 2100, and every
\* message of the output has a timestamp of a year from 2009 to 2100.
C23_TwoDigitYear ==
  /\ \A i \in 1..(lineNo - 1) :
       fileLines[i].stamp /\ fileLines[i].sep =>
         (parseMessageLine(fileLines[i]).ok <=>
            ClaimedYear(fileLines[i].year) \in 2009..2100)
  /\ \A i \in 1..Len(parserMessages) :
       /\ parserMessages[i].timestamp.year \in 2009..2100
       /\ parserMessages[i].timestamp.year =
            ClaimedYear(fileLines[parserMessages[i].id].year)

\* what holds: the year of an output message lies in 2009..2100, and it is
\* the claimed year whenever the month as written is a month of the calendar
C23_YearInRange ==
  \A i \in 1..Len(parserMessages) :
    /\ parserMessages[i].timestamp.year \in 2009..2100
    /\ fileLines[parserMessages[i].id].month \in 1..12 =>
         parserMessages[i].timestamp.year =
           ClaimedYear(fileLines[parserMessages[i].id].year)

(***************************************************************************)
(* Properties of the shared agent                                          *)
(***************************************************************************)
\* C24: what a run() returns is built from its own tool steps and its own
\* question only: every entry of its reasoning trace is a step of that run,
\* its step count is the number of its tool steps (here the number of its
\* tool calls: every step of these runs comes from a tool call), and a
\* synthesized answer is made for its question from the observations of its
\* steps, also when two runs on the shared agent interleave.
C24_RunUsesOwnState ==
  \A r \in Runs :
    apc[r] = "done" =>
      /\ \A i \in 1..Len(response[r].reasoning) : response[r].reasoning[i].run = r
      /\ response[r].chunksRetrieved = toolCalls[r]
      /\ response[r].answer.kind = "synthesis" =>
            /\ response[r].answer.question = r
            /\ Len(response[r].answer.observations) = toolCalls[r]
            /\ \A i \in 1..Len(response[r].answer.observations) :
                 response[r].answer.observations[i].run = r

(***************************************************************************)
(* Properties of the character budget                                      *)
(***************************************************************************)
\* the estimated cost of a list of messages: 25 + sender length + content
\* length for each of them
CostOf(msgs) ==
  SumSeq([i \in 1..Len(msgs) |-> 25 + msgs[i].slen + msgs[i].clen])

WithinBudget(msgs) == Len(msgs) > 1 => CostOf(msgs) <= opts.maxChunkChars

\* the state of the merge loop after the first i chunks of the partition
MergeStateAfter(i) ==
  MergeLoop(SubSeq(chunks, 1, i), 1,
            [result |-> <<>>, pendingMessages |-> <<>>, pendingChars |-> 0],
            opts.minMessages, opts.maxChunkChars)

\* C25: every chunk of more than one message costs at most maxChunkChars:
\* in the greedy partition, in the result list and the pending messages
\* after every chunk that the merge pass handles, and in the output of
\* chunkMessages; only a chunk of one message exceeds the budget.
C25_ChunksWithinBudget ==
  /\ \A i \in 1..Len(chunks) : WithinBudget(chunks[i].messages)
  /\ \A i \in 1..Len(mergedChunks) : WithinBudget(mergedChunks[i].messages)
  /\ cpc # "start" /\ Len(chunks) > 1 =>
       \A i \in 0..Len(chunks) :
         LET st == MergeStateAfter(i)
         IN /\ \A k \in 1..Len(st.result) : WithinBudget(st.result[k].messages)
            /\ WithinBudget(st.pendingMessages)
            /\ st.pendingChars = CostOf(st.pendingMessages)

\* the merge pass has joined chunks of the partition into one chunk of the
\* output, and has left the last, undersized chunk alone because joining
\* it to its neighbour would exceed the budget
C25_Witness ==
  /\ cpc = "done"
  /\ Len(mergedChunks) >= 2
  /\ Len(mergedChunks) < Len(chunks)
  /\ Len(Last(mergedChunks).messages) < opts.minMessages
  /\ CostOf(Last(mergedChunks).messages)
       + CostOf(mergedChunks[Len(mergedChunks) - 1].messages) > opts.maxChunkChars

(***************************************************************************)
(* Properties of the full-sized chunks in the merge pass                   *)
(***************************************************************************)
FullSized(i) == chunks[i].messageCount >= opts.minMessages

\* the message m belongs to an undersized chunk of the partition
FromUndersized(m) == ~FullSized(ChunkIndexOf(chunks, m.id))

\* C26 as stated: every chunk of the partition that holds at least
\* minMessages messages is a chunk of the output, with exactly its messages.
C26_FullChunksUnchanged ==
  cpc = "done" =>
    \A i \in 1..Len(chunks) :
      FullSized(i) =>
        \E k \in 1..Len(mergedChunks) : mergedChunks[k].messages = chunks[i].messages

\* C26 amended: every chunk of the partition that holds at least minMessages
\* messages lies, whole and in order, in one chunk of the output; what that
\* output chunk holds before and after it are messages of undersized chunks
\* of the partition, and then the output chunk is within maxChunkChars;
\* nothing is added before it when the chunk that precedes it in the
\* partition is full-sized or absent, and nothing after it when the chunk
\* that follows it is full-sized or absent.
C26_FullChunksKeptOrExtended ==
  cpc = "done" =>
    \A i \in 1..Len(chunks) :
      FullSized(i) =>
        \E k \in 1..Len(mergedChunks) :
          LET o == mergedChunks[k].messages
              c == chunks[i].messages
          IN \E a \in 0..(Len(o) - Len(c)) :
               /\ SubSeq(o, a + 1, a + Len(c)) = c
               /\ \A x \in (1..a) \cup ((a + Len(c) + 1)..Len(o)) : FromUndersized(o[x])
               /\ o # c => getMessagesCharCount(o) <= opts.maxChunkChars
               /\ (i = 1 \/ FullSized(i - 1)) => a = 0
               /\ (i = Len(chunks) \/ FullSized(i + 1)) => a + Len(c) = Len(o)

\* a full-sized chunk of the partition comes out with the message of the
\* undersized chunk before it in front and the message of the undersized
\* chunk after it behind
C26_Witness ==
  /\ cpc = "done"
  /\ Len(chunks) = 3
  /\ ~FullSized(1) /\ FullSized(2) /\ ~FullSized(3)
  /\ Len(mergedChunks) = 1
  /\ mergedChunks[1].messages =
       chunks[1].messages \o chunks[2].messages \o chunks[3].messages

(***************************************************************************)
(* Properties of the action input                                          *)
(***************************************************************************)
\* the completion has no final answer section, names an action and has an
\* Action Input that is not valid JSON
NamesActionWithBadInput(c) ==
  c.final = "none" /\ c.action # "none" /\ c.input \in {"badjson", "nobrace"}

\* C27: a completion without a final answer that names an action and whose
\* Action Input is not valid JSON is never answered by the nudge: the named
\* tool, when registered, is called in that iteration with the parameters
\* {query: <raw input>}; and a completion without a final answer section is
\* answered by the nudge only when no action was parsed from it.
C27_BadInputFallsBackToQuery ==
  [][\A r \in Runs : \A c \in Completions :
       /\ (NamesActionWithBadInput(c) /\ getTool(c.action) /\ apc[r] = "awaitGen"
            /\ (AgentNudge(r, c) \/ AgentDispatchTool(r, c))) =>
             /\ apc'[r] = "awaitTool"
             /\ pendingCall'[r] = [action |-> c.action, actionInput |-> "query"]
       /\ (AgentNudge(r, c) /\ c.final = "none") => c.action = "none"]_vars

\* what holds: the fallback {query: ...} is used when the Action Input has
\* braces that JSON.parse rejects, and the nudge answers every completion
\* without final answer text that lacks an action or a parsed input
C27_FallbackNeedsBraces ==
  [][\A r \in Runs : \A c \in Completions :
       /\ (AgentDispatchTool(r, c) /\ c.input = "badjson") =>
             pendingCall'[r] = [action |-> c.action, actionInput |-> "query"]
       /\ (apc[r] = "awaitGen" /\ c.final = "none" /\ c.action # "none"
            /\ c.input \in {"none", "nobrace"}) => ENABLED AgentNudge(r, c)]_vars

(***************************************************************************)
(* Properties of the senderless lines                                      *)
(***************************************************************************)
\* the line has no colon within the first 50 characters of what follows
\* the separator
NoColonInFirst50(line) == line.colonIndex < 0 \/ line.colonIndex >= 50

\* the messages of header lines without such a colon have an empty sender,
\* and no message with an empty sender is counted as a participant
SenderlessLines ==
  /\ \A i \in 1..Len(parserMessages) :
       NoColonInFirst50(fileLines[parserMessages[i].id]) => parserMessages[i].sender = ""
  /\ currentMessage.open /\ NoColonInFirst50(fileLines[currentMessage.id]) =>
       currentMessage.sender = ""
  /\ "" \notin participantsSet
  /\ \A k \in 1..Len(parserResult.participants) : parserResult.participants[k] # ""

\* C28 as stated: a header line with no colon within the first 50
\* characters of its remainder gives a message with an empty sender, and
\* every message with an empty sender in the output has type system and is
\* no participant.
C28_SenderlessIsSystem ==
  /\ SenderlessLines
  /\ \A i \in 1..Len(parserMessages) :
       parserMessages[i].sender = "" => parserMessages[i].type = "system"

\* C28 amended: a header line with no colon within the first 50 characters
\* of its remainder gives a message with an empty sender; a message with an
\* empty sender in the output has type deleted when its content matches a
\* deleted-message pattern and type system otherwise, and is no participant.
C28_SenderlessIsSystemOrDeleted ==
  /\ SenderlessLines
  /\ \A i \in 1..Len(parserMessages) :
       parserMessages[i].sender = "" =>
         parserMessages[i].type =
           (IF DeletedRule(parserMessages[i].content) THEN "deleted" ELSE "system")

\* a line whose first colon is at index 50 gives a system message without
\* sender, and a line without colon whose text matches a deleted pattern
\* gives a deleted message without sender; nobody is a participant
C28_Witness ==
  /\ ppc = "done"
  /\ Len(parserMessages) = 2
  /\ fileLines[parserMessages[1].id].colonIndex = 50
  /\ parserMessages[1].sender = ""
  /\ parserMessages[1].type = "system"
  /\ fileLines[parserMessages[2].id].colonIndex = -1
  /\ parserMessages[2].sender = ""
  /\ parserMessages[2].type = "deleted"
  /\ parserResult.participants = <<>>

(***************************************************************************)
(* Properties of minMessages                                               *)
(***************************************************************************)
\* the character budget blocks no merge: all the input costs at most
\* maxChunkChars
BudgetBlocksNothing == CostOf(messages) <= opts.maxChunkChars

\* C29: when all the input messages together cost at most maxChunkChars,
\* every chunk that chunkMessages returns holds at least minMessages
\* messages, unless it returns one single chunk.
C29_MinMessagesWhenBudgetAllows ==
  (cpc = "done" /\ BudgetBlocksNothing) =>
    \/ Len(mergedChunks) = 1
    \/ \A k \in 1..Len(mergedChunks) : mergedChunks[k].messageCount >= opts.minMessages

\* a partition with undersized chunks, merged into two chunks of at least
\* minMessages messages each
C29_Witness ==
  /\ cpc = "done"
  /\ BudgetBlocksNothing
  /\ opts.minMessages >= 2
  /\ Len(mergedChunks) = 2
  /\ Len(chunks) > 2
  /\ \E i \in 1..Len(chunks) : chunks[i].messageCount < opts.minMessages
  /\ \A k \in 1..Len(mergedChunks) : mergedChunks[k].messageCount >= opts.minMessages

(***************************************************************************)
(* Properties of the embedding batches                                     *)
(***************************************************************************)
\* C30: within one job an embedding call is sent only when every chunk of
\* the batches before it is stored in storedChunks (the call before it has
\* returned and its batch is worked off); a batch holds 1 to 10 chunks;
\* storedChunks holds the chunks in chunk order, each once, each with the
\* embedding returned at its position; processedChunks never decreases;
\* upsertBatch is called only when all the chunks are in storedChunks, and
\* a job that failed has stored nothing.
C30_SequentialBatches ==
  /\ [](\A j \in Jobs :
          /\ jpc[j] \in {"awaitEmbed", "awaitSummary"} =>
               /\ Len(Batch(j)) \in 1..10
               /\ \A k \in 1..Len(Batch(j)) : Batch(j)[k] = batchStart[j] + k
          /\ jpc[j] = "awaitEmbed" => Len(storedChunks[j]) = batchStart[j]
          /\ \A i \in 1..Len(storedChunks[j]) :
               storedChunks[j][i].chunk = i /\ storedChunks[j][i].embedding = i
          /\ Len(storedChunks[j]) <= jobInput[j].totalChunks
          /\ jpc[j] \in {"awaitStore", "returned"} =>
               Len(storedChunks[j]) = jobInput[j].totalChunks
          /\ jpc[j] # "returned" => upserted[j] = <<>>
          /\ jpc[j] = "returned" => upserted[j] = storedChunks[j])
  /\ [][\A j \in Jobs :
         /\ j \in DOMAIN progress =>
              progress'[j].processedChunks >= progress[j].processedChunks
         /\ PipeEmbedBatch(j) =>
              /\ jpc[j] = "batch"
              /\ Len(storedChunks[j]) = batchStart[j]
              /\ batchStart[j] % batchSize = 0
         /\ PipeStore(j) => Len(storedChunks[j]) = jobInput[j].totalChunks]_vars

\* one job of 11 chunks has returned after two batches, with every chunk
\* stored with its embedding; the other failed in the embedding call of its
\* second batch, with 10 chunks worked off and nothing stored
C30_Witness ==
  /\ jpc["j1"] = "returned"
  /\ jobInput["j1"].totalChunks = 11
  /\ Len(upserted["j1"]) = 11
  /\ upserted["j1"][11].embedding = 11
  /\ progress["j1"].processedChunks = 11
  /\ jpc["j2"] = "thrown"
  /\ jobInput["j2"].totalChunks = 11
  /\ Len(storedChunks["j2"]) = 10
  /\ progress["j2"].processedChunks = 10
  /\ upserted["j2"] = <<>>

====
